---------------------------- MODULE Spec2Model ----------------------------
(***************************************************************************)
(* Document Extraction & Quality Assessment Engine of WheelsUp (etl/).     *)
(*                                                                         *)
(*   etl/utils/text_cleaning.py          HTMLCleaner, quality metrics      *)
(*   etl/pipelines/extract/pdf_to_text.py  PDFTextExtractor                *)
(*   etl/pipelines/extract/html_to_text.py TextExtractionPipeline          *)
(*   etl/pipelines/llm/extract_school_data.py SchoolDataExtractor (cache)  *)
(*                                                                         *)
(* Texts are run-length encoded sequences of character classes, so that    *)
(* the program's real thresholds (1000 characters, 50 words, ...) are      *)
(* crossed by values the model checker can hold.  Floating point values    *)
(* are exact rationals in lowest terms.                                    *)
(***************************************************************************)
EXTENDS Integers, Sequences, FiniteSets, TLC

-----------------------------------------------------------------------------
(* Exact rationals [num, den], den > 0, in lowest terms.                   *)

Abs(x) == IF x < 0 THEN -x ELSE x

RECURSIVE GCD(_, _)
GCD(a, b) == IF b = 0 THEN a ELSE GCD(b, a % b)

Rat(n, d) ==
    LET g == GCD(Abs(n), d)
    IN  IF n = 0 THEN [num |-> 0, den |-> 1]
        ELSE [num |-> n \div g, den |-> d \div g]

RInt(n) == [num |-> n, den |-> 1]
RZero == RInt(0)
RAdd(a, b) == Rat(a.num * b.den + b.num * a.den, a.den * b.den)
RSub(a, b) == Rat(a.num * b.den - b.num * a.den, a.den * b.den)
RMul(a, b) == Rat(a.num * b.num, a.den * b.den)
RLt(a, b) == a.num * b.den < b.num * a.den
RLe(a, b) == a.num * b.den <= b.num * a.den
RAbs(a) == [num |-> Abs(a.num), den |-> a.den]
\* Python's max(a, b) / min(a, b): the first argument wins a tie.
RMax(a, b) == IF RLt(a, b) THEN b ELSE a
RMin(a, b) == IF RLt(b, a) THEN b ELSE a

-----------------------------------------------------------------------------
(* Texts.  A run is n > 0 characters of one class:                         *)
(*   "a" ASCII letter     "1" decimal digit     " " space or tab           *)
(*   "\n" newline         "." one of . ! ?      "#" any other symbol       *)

CharClasses == {"a", "1", " ", "\n", ".", "#"}

Run(c, n) == [c |-> c, n |-> n]
Chars(c, n) == IF n = 0 THEN <<>> ELSE <<Run(c, n)>>

\* The recursions below halve their range, so that a text of a few hundred
\* runs is computed in a few levels.

RECURSIVE ConcatRange(_, _, _)
\* ss[lo] \o ... \o ss[hi]
ConcatRange(ss, lo, hi) ==
    IF lo > hi THEN <<>>
    ELSE IF lo = hi THEN ss[lo]
    ELSE LET mid == (lo + hi) \div 2
         IN  ConcatRange(ss, lo, mid) \o ConcatRange(ss, mid + 1, hi)

Concat(ss) == ConcatRange(ss, 1, Len(ss))

RECURSIVE SumRange(_, _, _)
\* f[lo] + ... + f[hi]
SumRange(f, lo, hi) ==
    IF lo > hi THEN 0
    ELSE IF lo = hi THEN f[lo]
    ELSE LET mid == (lo + hi) \div 2
         IN  SumRange(f, lo, mid) + SumRange(f, mid + 1, hi)

Sum(f) == SumRange(f, 1, Len(f))

\* Joins two sequences of pieces whose last and first piece are one piece
\* cut in two (a word or a line across the cut).
Glue(a, b) ==
    SubSeq(a, 1, Len(a) - 1) \o <<a[Len(a)] \o b[1]>> \o Tail(b)

RECURSIVE NormRange(_, _, _)
NormRange(t, lo, hi) ==
    IF lo > hi THEN <<>>
    ELSE IF lo = hi THEN <<t[lo]>>
    ELSE LET mid == (lo + hi) \div 2
             a == NormRange(t, lo, mid)
             b == NormRange(t, mid + 1, hi)
         IN  IF a[Len(a)].c = b[1].c
             THEN SubSeq(a, 1, Len(a) - 1)
                  \o <<Run(b[1].c, a[Len(a)].n + b[1].n)>> \o Tail(b)
             ELSE a \o b

\* Adjacent runs of one class are one run.
Norm(t) == NormRange(t, 1, Len(t))

Repeat(t, k) == Concat([i \in 1..k |-> t])

\* number of characters of t whose class is in S
CountIf(t, S) == Sum([i \in 1..Len(t) |-> IF t[i].c \in S THEN t[i].n ELSE 0])

TextLen(t) == CountIf(t, CharClasses)

\* str.strip() whitespace, \s
IsSpace(c) == c \in {" ", "\n"}
\* \w
IsWordChar(c) == c \in {"a", "1"}
\* str.isalpha()
IsAlpha(c) == c = "a"

\* str.strip()
Strip(t) ==
    LET ns == {i \in 1..Len(t) : ~IsSpace(t[i].c)}
    IN  IF ns = {} THEN <<>>
        ELSE SubSeq(t, CHOOSE i \in ns : \A j \in ns : i <= j,
                       CHOOSE i \in ns : \A j \in ns : j <= i)

RECURSIVE WordsRange(_, _, _)
WordsRange(t, lo, hi) ==
    IF lo > hi THEN <<>>
    ELSE IF lo = hi THEN (IF IsWordChar(t[lo].c) THEN << <<t[lo]>> >> ELSE <<>>)
    ELSE LET mid == (lo + hi) \div 2
             a == WordsRange(t, lo, mid)
             b == WordsRange(t, mid + 1, hi)
         IN  IF IsWordChar(t[mid].c) /\ IsWordChar(t[mid + 1].c)
             THEN Glue(a, b) ELSE a \o b

\* re.findall(r'\b\w+\b', text): the maximal groups of word characters; each
\* word is the sequence of its runs.
Words(t) == WordsRange(t, 1, Len(t))

\* len(re.split(r'[.!?]+', text)): one more than the number of maximal
\* groups of sentence punctuation.
SentenceCount(t) ==
    Cardinality({i \in 1..Len(t) : t[i].c = "." /\ (i = 1 \/ t[i - 1].c # ".")}) + 1

-----------------------------------------------------------------------------
(* Quality Scorer: etl/utils/text_cleaning.py                              *)

None == "None"

\* sum(len(word) for word in words)
SumLen(ws) == Sum([i \in 1..Len(ws) |-> TextLen(ws[i])])

\* re.match(r'^[a-zA-Z]+$', word)
IsEnglishWord(w) == \A i \in 1..Len(w) : w[i].c = "a"

EnglishWords(ws) == Cardinality({i \in 1..Len(ws) : IsEnglishWord(ws[i])})

\* TextQualityMetrics(): the dataclass defaults
TextQualityMetrics ==
    [total_chars |-> 0, total_words |-> 0, avg_word_length |-> RZero,
     readability_score |-> RZero, has_meaningful_content |-> FALSE,
     language_confidence |-> RZero]

\* _calculate_quality_metrics whose readability score is not floored at 0
calculate_quality_metrics_unfloored(text) ==
    IF text = <<>> THEN TextQualityMetrics
    ELSE LET words == Words(text)
             total_words == Len(words)
             avg_word_length ==
                 IF words # <<>> THEN Rat(SumLen(words), total_words) ELSE RZero
             readability_score ==
                 RSub(RInt(100), Rat(total_words, SentenceCount(text)))
         IN  [total_chars |-> TextLen(text), total_words |-> total_words,
              avg_word_length |-> avg_word_length,
              readability_score |-> readability_score,
              has_meaningful_content |->
                  /\ total_words > 50
                  /\ RLt(RInt(3), avg_word_length)
                  /\ RLt(RInt(20), readability_score),
              language_confidence |->
                  IF words # <<>> THEN Rat(EnglishWords(words), total_words)
                  ELSE RZero]

\* _calculate_quality_metrics taking 50 words for meaningful content
calculate_quality_metrics_from_50(text) ==
    IF text = <<>> THEN TextQualityMetrics
    ELSE [calculate_quality_metrics_unfloored(text) EXCEPT
            !.readability_score = RMax(RZero, @),
            !.has_meaningful_content =
                /\ Len(Words(text)) >= 50
                /\ RLt(RInt(3), calculate_quality_metrics_unfloored(text).avg_word_length)
                /\ RLt(RInt(20), calculate_quality_metrics_unfloored(text).readability_score)]

\* HTMLCleaner._calculate_quality_metrics
calculate_quality_metrics(text) ==
    IF text = <<>> THEN TextQualityMetrics
    ELSE LET words == Words(text)
             total_chars == TextLen(text)
             total_words == Len(words)
             avg_word_length ==
                 IF words # <<>> THEN Rat(SumLen(words), total_words) ELSE RZero
             sentences == SentenceCount(text)
             avg_words_per_sentence == Rat(total_words, sentences)
             readability_score ==
                 RMax(RZero, RSub(RInt(100), avg_words_per_sentence))
             has_meaningful_content ==
                 /\ total_words > 50
                 /\ RLt(RInt(3), avg_word_length)
                 /\ RLt(RInt(20), readability_score)
             language_confidence ==
                 IF words # <<>> THEN Rat(EnglishWords(words), total_words) ELSE RZero
         IN  [total_chars |-> total_chars, total_words |-> total_words,
              avg_word_length |-> avg_word_length,
              readability_score |-> readability_score,
              has_meaningful_content |-> has_meaningful_content,
              language_confidence |-> language_confidence]

\* get_quality_score without its early return for a text of no words
get_quality_score_unguarded(metrics) ==
    LET word_score == RMin(RInt(100), Rat(metrics.total_words, 2))
        readability_score ==
            RMax(RZero, RMin(RInt(100), metrics.readability_score))
        language_score == RMul(metrics.language_confidence, RInt(100))
    IN  RAdd(RAdd(RMul(word_score, Rat(4, 10)),
                  RMul(readability_score, Rat(3, 10))),
             RMul(language_score, Rat(3, 10)))

\* get_quality_score whose word score does not saturate at 100
get_quality_score_unsaturated(metrics) ==
    IF metrics.total_words = 0 THEN RZero
    ELSE LET word_score == Rat(metrics.total_words, 2)
             readability_score ==
                 RMax(RZero, RMin(RInt(100), metrics.readability_score))
             language_score == RMul(metrics.language_confidence, RInt(100))
         IN  RAdd(RAdd(RMul(word_score, Rat(4, 10)),
                       RMul(readability_score, Rat(3, 10))),
                  RMul(language_score, Rat(3, 10)))

\* TextQualityChecker.get_quality_score
get_quality_score(metrics) ==
    IF metrics.total_words = 0 THEN RZero
    ELSE LET word_score == RMin(RInt(100), Rat(metrics.total_words, 2))
             readability_score ==
                 RMax(RZero, RMin(RInt(100), metrics.readability_score))
             language_score == RMul(metrics.language_confidence, RInt(100))
         IN  RAdd(RAdd(RMul(word_score, Rat(4, 10)),
                       RMul(readability_score, Rat(3, 10))),
                  RMul(language_score, Rat(3, 10)))

-----------------------------------------------------------------------------
(* PDF Text Extractor: etl/pipelines/extract/pdf_to_text.py                *)

\* PDFMetadata(): the dataclass defaults
PDFMetadata ==
    [title |-> None, author |-> None, subject |-> None, creator |-> None,
     producer |-> None, creation_date |-> None, modification_date |-> None,
     pages |-> 0, encrypted |-> FALSE, file_size |-> 0]

\* the direct text must be shorter than this (after strip) for OCR to run
OcrTextLimit == 1000
\* PDFTextExtractor.__init__: ocr_min_confidence default
DefaultOcrMinConfidence == 60
\* _extract_text_ocr: only the first pages are recognised
OcrMaxPages == 50

\* A value returned or an exception raised.
Ok(v) == [ok |-> TRUE, val |-> v, err |-> ""]
Raise(msg) == [ok |-> FALSE, val |-> None, err |-> msg]

\* PDFTextExtractor._calculate_text_confidence
calculate_text_confidence(text) ==
    IF text = <<>> \/ Strip(text) = <<>> THEN RZero
    ELSE LET words == Words(text)
             chars == TextLen(text)
         IN  IF words = <<>> THEN RZero
             ELSE LET avg_word_len == Rat(SumLen(words), Len(words))
                      alpha_ratio == Rat(CountIf(text, {"a"}), chars)
                      word_len_score ==
                          RMax(RZero,
                               RSub(RInt(100),
                                    RMul(RAbs(RSub(avg_word_len, RInt(5))), RInt(10))))
                      alpha_score == RMul(alpha_ratio, RInt(100))
                      confidence == RAdd(RMul(word_len_score, Rat(4, 10)),
                                         RMul(alpha_score, Rat(6, 10)))
                  IN  RMin(RInt(100), RMax(RZero, confidence))

\* PDFTextExtractor._extract_metadata: the parser's failure is caught and
\* answered with the defaults.
extract_metadata(meta_ok) ==
    IF meta_ok
    THEN [PDFMetadata EXCEPT !.title = "Doc", !.pages = 2, !.file_size = 100]
    ELSE PDFMetadata

\* PDFTextExtractor._extract_text_direct
extract_text_direct(direct_ok, text) ==
    IF direct_ok
    THEN <<text, calculate_text_confidence(text)>>
    ELSE <<(<<>>), RZero>>

RECURSIVE JoinPages(_)
\* '\n\n'.join(extracted_text)
JoinPages(pages) ==
    IF pages = <<>> THEN <<>>
    ELSE IF Len(pages) = 1 THEN Head(pages).text
    ELSE Head(pages).text \o Chars("\n", 2) \o JoinPages(Tail(pages))

RECURSIVE SumConf(_)
SumConf(pages) == IF pages = <<>> THEN RZero ELSE RAdd(Head(pages).conf, SumConf(Tail(pages)))

Min(a, b) == IF a < b THEN a ELSE b

\* PDFTextExtractor._extract_text_ocr
extract_text_ocr(ocr_ok, ocr_pages, OCR_AVAILABLE) ==
    IF ~OCR_AVAILABLE THEN <<(<<>>), RZero>>
    ELSE IF ~ocr_ok THEN <<(<<>>), RZero>>
    ELSE LET pages == SubSeq(ocr_pages, 1, Min(Len(ocr_pages), OcrMaxPages))
             page_count == Len(pages)
             final_text == Norm(JoinPages(pages))
             avg_confidence ==
                 IF page_count > 0 THEN RMul(SumConf(pages), Rat(1, page_count))
                 ELSE RZero
         IN  <<final_text, avg_confidence>>

\* PDFTextExtractor._calculate_quality_metrics: the function-level import
\* "from ..utils.text_cleaning import HTMLCleaner" raises ImportError where
\* the parent package has no utils subpackage.
pdf_calculate_quality_metrics(text, import_ok) ==
    IF import_ok THEN Ok(calculate_quality_metrics(text))
    ELSE Raise("No module named 'pipelines.utils'")

\* _merge_texts returning the longer text whatever the quality of the two
merge_texts_longer(direct_text, ocr_text, import_ok) ==
    IF direct_text = <<>> THEN Ok(ocr_text)
    ELSE IF ocr_text = <<>> THEN Ok(direct_text)
    ELSE IF ~pdf_calculate_quality_metrics(direct_text, import_ok).ok
    THEN Raise(pdf_calculate_quality_metrics(direct_text, import_ok).err)
    ELSE Ok(IF TextLen(direct_text) >= TextLen(ocr_text)
            THEN direct_text ELSE ocr_text)

\* PDFTextExtractor._merge_texts
merge_texts(direct_text, ocr_text, import_ok) ==
    IF direct_text = <<>> THEN Ok(ocr_text)
    ELSE IF ocr_text = <<>> THEN Ok(direct_text)
    ELSE LET direct_quality == pdf_calculate_quality_metrics(direct_text, import_ok)
             ocr_quality == pdf_calculate_quality_metrics(ocr_text, import_ok)
         IN  IF ~direct_quality.ok THEN Raise(direct_quality.err)
             ELSE IF direct_quality.val.has_meaningful_content
                     /\ ~ocr_quality.val.has_meaningful_content
             THEN Ok(direct_text)
             ELSE IF ocr_quality.val.has_meaningful_content
                     /\ ~direct_quality.val.has_meaningful_content
             THEN Ok(ocr_text)
             ELSE Ok(IF TextLen(direct_text) >= TextLen(ocr_text)
                     THEN direct_text ELSE ocr_text)

\* The maximal whitespace region of a normalised text that holds run i.
RegionLo(t, i) ==
    CHOOSE j \in 1..i :
        /\ \A k \in j..i : IsSpace(t[k].c)
        /\ (j = 1 \/ ~IsSpace(t[j - 1].c))
RegionHi(t, i) ==
    CHOOSE j \in i..Len(t) :
        /\ \A k \in i..j : IsSpace(t[k].c)
        /\ (j = Len(t) \/ ~IsSpace(t[j + 1].c))

\* re.sub(r'\n\s*\n\s*\n+', '\n\n', text), on a normalised text: in a
\* whitespace region with three or more newlines, everything from its first
\* newline to its last becomes two newlines.
CollapseBlankLines(t) ==
    LET Piece(i) ==
            IF ~IsSpace(t[i].c) THEN <<t[i]>>
            ELSE LET lo == RegionLo(t, i)
                     hi == RegionHi(t, i)
                     newlines == Sum([k \in 1..(hi - lo + 1) |->
                                        IF t[lo + k - 1].c = "\n" THEN t[lo + k - 1].n ELSE 0])
                     firstNl == IF t[lo].c = "\n" THEN lo ELSE lo + 1
                 IN  IF newlines < 3 THEN <<t[i]>>
                     ELSE IF i = firstNl THEN Chars("\n", 2)
                     ELSE IF t[i].c = " " /\ i \in {lo, hi} THEN <<t[i]>>
                     ELSE <<>>
    IN  Concat([i \in 1..Len(t) |-> Piece(i)])

\* re.sub(r'[ \t]+', ' ', text), on a normalised text
CollapseSpaces(t) == [i \in 1..Len(t) |-> IF t[i].c = " " THEN Run(" ", 1) ELSE t[i]]

RECURSIVE SplitRange(_, _, _)
SplitRange(t, lo, hi) ==
    IF lo > hi THEN << <<>> >>
    ELSE IF lo = hi
    THEN (IF t[lo].c = "\n" THEN [i \in 1..(t[lo].n + 1) |-> <<>>] ELSE << <<t[lo]>> >>)
    ELSE LET mid == (lo + hi) \div 2
         IN  Glue(SplitRange(t, lo, mid), SplitRange(t, mid + 1, hi))

\* text.split('\n')
SplitLines(t) == SplitRange(t, 1, Len(t))

\* '\n'.join(lines)
JoinLines(lines) ==
    Concat([i \in 1..Len(lines) |->
              IF i = 1 THEN lines[i] ELSE Chars("\n", 1) \o lines[i]])

\* re.match(r'^\d+$', line)
IsDigits(line) == line # <<>> /\ \A i \in 1..Len(line) : line[i].c = "1"

\* the tests of the loop of _clean_extracted_text on a stripped line
PdfKeepLine(line) ==
    ~ \/ line = <<>>
      \/ TextLen(line) < 5
      \/ IsDigits(line) /\ TextLen(line) <= 4

\* PDFTextExtractor._clean_extracted_text
clean_extracted_text(text) ==
    IF text = <<>> THEN <<>>
    ELSE LET t1 == CollapseBlankLines(Norm(text))
             t2 == CollapseSpaces(Norm(t1))
             lines == SplitLines(t2)
             stripped == [i \in 1..Len(lines) |-> Strip(lines[i])]
         IN  Strip(Norm(JoinLines(SelectSeq(stripped, PdfKeepLine))))

\* HtmlKeepLine dropping a line of exactly 10 characters as well
HtmlKeepLineOver10(line) ==
    ~ \/ line = <<>>
      \/ TextLen(line) <= 10
      \/ 10 * CountIf(line, {"a"}) < 3 * TextLen(line) /\ TextLen(line) > 20

\* the tests of the loop of HTMLCleaner._clean_text on a stripped line:
\* alpha_chars / len(line) < 0.3 is 10 * alpha_chars < 3 * len(line)
HtmlKeepLine(line) ==
    ~ \/ line = <<>>
      \/ TextLen(line) < 10
      \/ 10 * CountIf(line, {"a"}) < 3 * TextLen(line) /\ TextLen(line) > 20

\* HTMLCleaner._clean_text; NFKC leaves the characters of CharClasses as they are
clean_text(text) ==
    IF text = <<>> THEN <<>>
    ELSE LET t1 == CollapseBlankLines(Norm(text))
             t2 == CollapseSpaces(Norm(t1))
             lines == SplitLines(t2)
             stripped == [i \in 1..Len(lines) |-> Strip(lines[i])]
         IN  Strip(Norm(JoinLines(SelectSeq(stripped, HtmlKeepLine))))

\* self.ocr_fallback as PDFTextExtractor.__init__ sets it
OcrFallback(cfg, OCR_AVAILABLE) == cfg.ocr_fallback /\ OCR_AVAILABLE

\* OcrGate without its test of the length of the direct text.
OcrGateNoLength(cfg, OCR_AVAILABLE, direct_text, direct_confidence) ==
    /\ cfg.ocr_fallback /\ OCR_AVAILABLE
    /\ RLt(direct_confidence, cfg.ocr_min_confidence)

\* The OCR gate of extract_from_pdf.
OcrGate(cfg, OCR_AVAILABLE, direct_text, direct_confidence) ==
    /\ OcrFallback(cfg, OCR_AVAILABLE)
    /\ RLt(direct_confidence, cfg.ocr_min_confidence)
    /\ TextLen(Strip(direct_text)) < OcrTextLimit

\* SelectMethod trying the hybrid branch before comparing the confidences.
SelectMethodHybridFirst(direct_text, direct_confidence, ocr_text, ocr_confidence) ==
    IF ocr_text # <<>> /\ TextLen(Strip(ocr_text)) > TextLen(Strip(direct_text))
    THEN "hybrid"
    ELSE IF RLt(direct_confidence, ocr_confidence) THEN "ocr"
    ELSE "direct"

\* SelectMethod taking OCR already when the confidences tie.
SelectMethodTie(direct_text, direct_confidence, ocr_text, ocr_confidence) ==
    IF RLe(direct_confidence, ocr_confidence) THEN "ocr"
    ELSE IF ocr_text # <<>> /\ TextLen(Strip(ocr_text)) > TextLen(Strip(direct_text))
    THEN "hybrid"
    ELSE "direct"

\* The choice between the two extractions once OCR has run.
SelectMethod(direct_text, direct_confidence, ocr_text, ocr_confidence) ==
    IF RLt(direct_confidence, ocr_confidence) THEN "ocr"
    ELSE IF ocr_text # <<>> /\ TextLen(Strip(ocr_text)) > TextLen(Strip(direct_text))
    THEN "hybrid"
    ELSE "direct"

\* SelectedConfidence giving a hybrid result the OCR confidence.
SelectedConfidenceOcr(extraction_method, direct_confidence, ocr_confidence) ==
    CASE extraction_method = "ocr" -> ocr_confidence
      [] extraction_method = "hybrid" -> ocr_confidence
      [] OTHER -> direct_confidence

\* confidence_score as the selection assigns it.
SelectedConfidence(extraction_method, direct_confidence, ocr_confidence) ==
    CASE extraction_method = "ocr" -> ocr_confidence
      [] extraction_method = "hybrid" -> RMax(direct_confidence, ocr_confidence)
      [] OTHER -> direct_confidence

\* The PDFExtractionResult of the except branch of extract_from_pdf.
PdfFailed(msg) ==
    [text |-> <<>>, metadata |-> PDFMetadata, quality_metrics |-> TextQualityMetrics,
     extraction_method |-> "failed", confidence_score |-> RZero,
     errors |-> << <<"PDF extraction failed", msg>> >>]

\* Lines 142-150 of extract_from_pdf on the call's locals p: the selection
\* after OCR; an exception of _merge_texts leaves for the except branch.
SelectStep(p) ==
    IF SelectMethod(p.direct_text, p.direct_confidence, p.ocr_text, p.ocr_confidence) = "ocr"
    THEN [p EXCEPT !.pc = "clean", !.extraction_method = "ocr",
                   !.final_text = p.ocr_text, !.confidence_score = p.ocr_confidence]
    ELSE IF SelectMethod(p.direct_text, p.direct_confidence, p.ocr_text, p.ocr_confidence) = "hybrid"
    THEN (IF merge_texts(p.direct_text, p.ocr_text, p.import_ok).ok
          THEN [p EXCEPT !.pc = "clean", !.extraction_method = "hybrid",
                         !.final_text = merge_texts(p.direct_text, p.ocr_text, p.import_ok).val,
                         !.confidence_score =
                             SelectedConfidence("hybrid", p.direct_confidence, p.ocr_confidence)]
          ELSE [p EXCEPT !.pc = "except", !.extraction_method = "hybrid",
                         !.exc = merge_texts(p.direct_text, p.ocr_text, p.import_ok).err])
    ELSE [p EXCEPT !.pc = "clean"]

\* Lines 156-168: the metrics of the cleaned text and the returned result.
MetricsStep(p) ==
    IF pdf_calculate_quality_metrics(p.final_text, p.import_ok).ok
    THEN [p EXCEPT !.pc = "done",
                   !.result = [text |-> p.final_text, metadata |-> p.metadata,
                               quality_metrics |->
                                   pdf_calculate_quality_metrics(p.final_text, p.import_ok).val,
                               extraction_method |-> p.extraction_method,
                               confidence_score |-> p.confidence_score,
                               errors |-> p.errors]]
    ELSE [p EXCEPT !.pc = "except",
                   !.exc = pdf_calculate_quality_metrics(p.final_text, p.import_ok).err]

\* ExceptResult returning the metadata the call had extracted.
ExceptResultKeepsMetadata(p) ==
    [PdfFailed(p.exc) EXCEPT !.errors = Append(p.errors, <<"PDF extraction failed", p.exc>>),
                             !.metadata = p.metadata]

\* ExceptResult with the message left out of errors.
ExceptResultNoMessage(p) == [PdfFailed(p.exc) EXCEPT !.errors = p.errors]

\* Lines 170-185: the result of the except branch.
ExceptResult(p) ==
    [PdfFailed(p.exc) EXCEPT !.errors = Append(p.errors, <<"PDF extraction failed", p.exc>>)]

-----------------------------------------------------------------------------
(* Document contents: a Python str is a sequence of code points, a bytes   *)
(* object a sequence of octets.                                            *)

Str(cps) == [kind |-> "str", data |-> cps]
Bytes(octets) == [kind |-> "bytes", data |-> octets]

\* U+D800..U+DFFF, which UTF-8 does not encode
IsSurrogate(cp) == cp \in 55296..57343

\* the UTF-8 octets of one code point
Utf8Char(cp) ==
    IF cp < 128 THEN <<cp>>
    ELSE IF cp < 2048 THEN <<192 + (cp \div 64), 128 + (cp % 64)>>
    ELSE IF cp < 65536
    THEN <<224 + (cp \div 4096), 128 + ((cp \div 64) % 64), 128 + (cp % 64)>>
    ELSE <<240 + (cp \div 262144), 128 + ((cp \div 4096) % 64),
           128 + ((cp \div 64) % 64), 128 + (cp % 64)>>

\* str.encode('utf-8'): UnicodeEncodeError on a lone surrogate
Utf8Encode(s) ==
    IF \E i \in 1..Len(s) : IsSurrogate(s[i])
    THEN Raise("'utf-8' codec can't encode character: surrogates not allowed")
    ELSE Ok(Concat([i \in 1..Len(s) |-> Utf8Char(s[i])]))

IsCont(o) == o \in 128..191

\* the length of the well-formed UTF-8 sequence that starts at b[i], 0 if none
Utf8SeqLen(b, i) ==
    IF b[i] < 128 THEN 1
    ELSE IF /\ b[i] \in 194..223 /\ i + 1 <= Len(b) /\ IsCont(b[i + 1]) THEN 2
    ELSE IF /\ b[i] \in 224..239 /\ i + 2 <= Len(b)
            /\ IsCont(b[i + 1]) /\ IsCont(b[i + 2])
            /\ (b[i] = 224 => b[i + 1] >= 160)
            /\ (b[i] = 237 => b[i + 1] <= 159)
    THEN 3
    ELSE IF /\ b[i] \in 240..244 /\ i + 3 <= Len(b)
            /\ IsCont(b[i + 1]) /\ IsCont(b[i + 2]) /\ IsCont(b[i + 3])
            /\ (b[i] = 240 => b[i + 1] >= 144)
            /\ (b[i] = 244 => b[i + 1] <= 143)
    THEN 4
    ELSE 0

\* the code point of the well-formed sequence of k octets at b[i]
Utf8CodePoint(b, i, k) ==
    CASE k = 1 -> b[i]
      [] k = 2 -> (b[i] - 192) * 64 + (b[i + 1] - 128)
      [] k = 3 -> (b[i] - 224) * 4096 + (b[i + 1] - 128) * 64 + (b[i + 2] - 128)
      [] OTHER -> (b[i] - 240) * 262144 + (b[i + 1] - 128) * 4096
                  + (b[i + 2] - 128) * 64 + (b[i + 3] - 128)

RECURSIVE Utf8DecodeFrom(_, _)
Utf8DecodeFrom(b, i) ==
    IF i > Len(b) THEN Ok(<<>>)
    ELSE IF Utf8SeqLen(b, i) = 0
    THEN Raise("'utf-8' codec can't decode byte: invalid start byte")
    ELSE IF Utf8DecodeFrom(b, i + Utf8SeqLen(b, i)).ok
    THEN Ok(<<Utf8CodePoint(b, i, Utf8SeqLen(b, i))>>
            \o Utf8DecodeFrom(b, i + Utf8SeqLen(b, i)).val)
    ELSE Utf8DecodeFrom(b, i + Utf8SeqLen(b, i))

\* bytes.decode('utf-8'): UnicodeDecodeError on an ill-formed sequence
Utf8Decode(b) == Utf8DecodeFrom(b, 1)

\* str.lower() on the code points of Basic Latin and Latin-1
LowerChar(cp) ==
    IF cp \in 65..90 \/ (cp \in 192..222 /\ cp # 215) THEN cp + 32 ELSE cp
Lower(s) == [i \in 1..Len(s) |-> LowerChar(s[i])]

\* s.startswith(prefix), s.endswith(suffix), sub in s
StartsWith(s, prefix) ==
    Len(prefix) <= Len(s) /\ SubSeq(s, 1, Len(prefix)) = prefix
EndsWith(s, suffix) ==
    Len(suffix) <= Len(s) /\ SubSeq(s, Len(s) - Len(suffix) + 1, Len(s)) = suffix
Contains(s, sub) ==
    \E i \in 1..(Len(s) - Len(sub) + 1) : SubSeq(s, i, i + Len(sub) - 1) = sub

\* the literals the pipeline looks for, as code points
LitPdfHeader == <<37, 80, 68, 70, 45>>                          \* %PDF-
LitHtmlTag == <<60, 104, 116, 109, 108>>                        \* <html
LitDoctype ==                                                   \* <!doctype html
    <<60, 33, 100, 111, 99, 116, 121, 112, 101, 32, 104, 116, 109, 108>>
LitDotPdf == <<46, 112, 100, 102>>                              \* .pdf
LitDotHtml == <<46, 104, 116, 109, 108>>                        \* .html
LitDotHtm == <<46, 104, 116, 109>>                              \* .htm

-----------------------------------------------------------------------------
(* Inputs of the extractor: what the PDF libraries answer for a document.  *)

TEmpty == <<>>
\* "12345": one word, no letters; confidence 40
TDigits5 == Chars("1", 5)
TDigits2000 == Chars("1", 2000)
\* 600 digits and 1400 trailing blanks: 2000 characters, 600 after strip
TPadded == Chars("1", 600) \o Chars(" ", 1400)
TSym999 == Chars("#", 999)
TSym1000 == Chars("#", 1000)
\* "123" and five newlines: 8 characters, 3 after strip; confidence 32
TTrail == Chars("1", 3) \o Chars("\n", 5)
\* "hello world."
TWords2 == Chars("a", 5) \o Chars(" ", 1) \o Chars("a", 5) \o Chars(".", 1)
\* 60 words in 6 sentences
TProse == Norm(Repeat(Repeat(Chars("a", 5) \o Chars(" ", 1), 9)
                      \o Chars("a", 5) \o Chars(".", 1) \o Chars("\n", 1), 6))
TLetters8 == Chars("a", 8)
\* 54 words "a1111" in 6 sentences: meaningful content, confidence below 50
TCodes == Norm(Repeat(Repeat(Chars("a", 1) \o Chars("1", 4) \o Chars(" ", 1), 8)
                      \o Chars("a", 1) \o Chars("1", 4) \o Chars(".", 1)
                      \o Chars("\n", 1), 6))
\* 20 words "1111", 100 characters: no meaningful content, confidence 36
TDigitWords100 == Norm(Repeat(Chars("1", 4) \o Chars(" ", 1), 20))
\* 63 words, 500 characters: meaningful content
TProse500 == Norm(Repeat(Chars("a", 7) \o Chars(" ", 1), 62)
                  \o Chars("a", 3) \o Chars(".", 1))

\* sentences of words of len letters, words of them to a sentence
Sentences(len, words, sentences) ==
    Norm(Repeat(Repeat(Chars("a", len) \o Chars(" ", 1), words - 1)
                \o Chars("a", len) \o Chars(".", 1) \o Chars("\n", 1), sentences))
\* exactly 50 and 51 words of 5 letters; 60 words of exactly 3 letters
TWords50 == Sentences(5, 10, 5)
TWords51 == Sentences(5, 17, 3)
TAvg3 == Sentences(3, 10, 6)
\* 80 words and no full stop: one sentence, readability exactly 20
TRead20 == Norm(Repeat(Chars("a", 5) \o Chars(" ", 1), 79) \o Chars("a", 5))

DirectTexts ==
    {TEmpty, TDigits5, TDigits2000, TPadded, TSym999, TSym1000, TTrail, TWords2, TProse,
     TCodes, TDigitWords100, TWords50, TWords51, TAvg3, TRead20}

Page(t, c) == [text |-> t, conf |-> RInt(c)]

OcrPageLists ==
    { <<>>,
      <<Page(TLetters8, 30)>>, <<Page(TLetters8, 40)>>, <<Page(TLetters8, 80)>>,
      <<Page(TEmpty, 0), Page(TEmpty, 0)>>,
      <<Page(TProse, 20)>>, <<Page(TSym999, 20)>>, <<Page(TProse500, 20)>>,
      <<Page(TSym999, 0)>> }

\* "hello world.": one line of 12 characters, 10 of them letters
THtmlMain == TWords2

\* the documents: a page with a non-ASCII letter, as str and as its UTF-8
\* octets; a scanned PDF; a page nested too deep for the parser; a str with
\* a lone surrogate; octets that are not UTF-8
CHtml == Str(<<60, 104, 116, 109, 108, 62, 233>>)               \* <html>e-acute
CHtmlB == Bytes(<<60, 104, 116, 109, 108, 62, 195, 169>>)
CScan == Bytes(<<37, 80, 68, 70, 45, 49>>)                      \* %PDF-1
CDeep == Str(<<60, 72, 84, 77, 76, 62, 60, 98, 62>>)            \* <HTML><b>
CSurr == Str(<<104, 55296>>)                                    \* h, U+D800
CBad == Bytes(<<255, 254>>)
NoContent == Str(<<>>)

Contents == {CHtml, CHtmlB, CScan, CDeep, CSurr, CBad}

\* What BeautifulSoup and the selectors of clean_html answer for a content:
\* the title and the main content, or the exception the parser raises.
HtmlLibrary(content) ==
    CASE content \in {CHtml, CHtmlB} ->
             [ok |-> TRUE, title |-> "Page", main_content |-> THtmlMain, err |-> ""]
      [] content = CDeep ->
             [ok |-> FALSE, title |-> "", main_content |-> <<>>,
              err |-> "maximum recursion depth exceeded"]
      [] OTHER ->
             [ok |-> TRUE, title |-> "", main_content |-> <<>>, err |-> ""]

\* What pdfminer, PyMuPDF and tesseract answer for a content: only the PDF
\* parses; its direct text is a short run of digits.
PdfLibrary(content) ==
    CASE content = CScan ->
             [meta_ok |-> TRUE, direct_ok |-> TRUE, direct_text |-> TDigits5,
              ocr_ok |-> TRUE, ocr_pages |-> <<Page(TLetters8, 40)>>]
      [] OTHER ->
             [meta_ok |-> FALSE, direct_ok |-> FALSE, direct_text |-> TEmpty,
              ocr_ok |-> FALSE, ocr_pages |-> <<>>]

\* the answers a call p of extract_from_pdf may get: those of its document
\* when the pipeline calls, any of the inputs above when the extractor is
\* called on a PDF of its own
MetaAnswers(p) ==
    IF p.caller = "caller" THEN BOOLEAN ELSE {PdfLibrary(p.content).meta_ok}
DirectAnswers(p) ==
    IF p.caller = "caller"
    THEN {<<TRUE, t>> : t \in DirectTexts} \cup {<<FALSE, TEmpty>>}
    ELSE {<<PdfLibrary(p.content).direct_ok, PdfLibrary(p.content).direct_text>>}
OcrAnswers(p) ==
    IF p.caller = "caller"
    THEN {<<TRUE, pages>> : pages \in OcrPageLists} \cup {<<FALSE, <<>> >>}
    ELSE {<<PdfLibrary(p.content).ocr_ok, PdfLibrary(p.content).ocr_pages>>}

\* PDFTextExtractor(ocr_fallback, ocr_min_confidence)
PdfConfigs ==
    { [ocr_fallback |-> f, ocr_min_confidence |-> c] :
        f \in BOOLEAN, c \in {RInt(DefaultOcrMinConfidence), RInt(30)} }

DefaultPdfConfig ==
    [ocr_fallback |-> TRUE, ocr_min_confidence |-> RInt(DefaultOcrMinConfidence)]

-----------------------------------------------------------------------------
VARIABLES
    proc,       \* the process: whether the OCR libraries import (OCR_AVAILABLE)
                \* and whether the relative import of text_cleaning resolves
    pdf,        \* the extract_from_pdf call in progress: its position, the
                \* extractor, the call's locals and the returned result
    pl,         \* the process_document call in progress
    batch,      \* the batch_process_documents call in progress
    prev,       \* an earlier process_document call, kept to compare with
    hc,         \* the HTMLCleaner.clean_html call in progress
    fn,         \* a function of the Quality Scorer, the cleaning rule or the
                \* PDF date parser, applied to an argument
    sd          \* the SchoolDataExtractor: its cache directory, the clock and
                \* the _extract_single_document call in progress

vars == <<proc, pdf, pl, batch, prev, hc, fn, sd>>

Processes == [OCR_AVAILABLE : BOOLEAN, import_ok : BOOLEAN]

NoResult ==
    [text |-> <<>>, metadata |-> PDFMetadata, quality_metrics |-> TextQualityMetrics,
     extraction_method |-> "", confidence_score |-> RZero, errors |-> <<>>]

PdfIdle ==
    [pc |-> "idle", caller |-> "", content |-> NoContent, cfg |-> DefaultPdfConfig,
     OCR_AVAILABLE |-> FALSE, import_ok |-> FALSE,
     metadata |-> PDFMetadata, metadata_failed |-> FALSE,
     direct_text |-> <<>>, direct_confidence |-> RZero, direct_failed |-> FALSE,
     ocr_ran |-> FALSE, ocr_text |-> <<>>, ocr_confidence |-> RZero,
     ocr_failed |-> FALSE,
     extraction_method |-> "", final_text |-> <<>>, confidence_score |-> RZero,
     errors |-> <<>>, exc |-> "", raised |-> FALSE, result |-> NoResult]

\* errors of a DocumentExtractionResult: a list of messages, or (as
\* _process_html_document passes clean_result['error']) one str; items are
\* the messages of the list, or the one message of the str
ErrorList(items) == [list |-> TRUE, items |-> items]
ErrorStr(msg) == [list |-> FALSE, items |-> IF msg = "" THEN <<>> ELSE << <<msg>> >>]

\* errors or []
ErrorsOrEmpty(errors) == IF errors.items = <<>> THEN ErrorList(<<>>) ELSE errors

\* metadata or {}
NoMetadata == [kind |-> "none"]

NoId == [source_name |-> "", sha256_12 |-> <<>>]

\* DocumentExtractionResult.__init__ with the defaults of its optional
\* arguments; the two clock readings (processing_time, extraction_timestamp)
\* are not kept
DocumentExtractionResult(document_id, source_name, url, document_type, extracted_text) ==
    [document_id |-> document_id, source_name |-> source_name, url |-> url,
     document_type |-> document_type, extracted_text |-> extracted_text,
     title |-> "", metadata |-> NoMetadata, quality_metrics |-> TextQualityMetrics,
     extraction_method |-> "", confidence_score |-> RZero,
     errors |-> ErrorsOrEmpty(ErrorList(<<>>))]

NoRecord == DocumentExtractionResult(NoId, "", "", "", <<>>)

\* a process_document call: its arguments, the clock reading at entry, its
\* locals, what failed in it, whether its result file was written and the
\* record that file holds
PlIdle ==
    [pc |-> "idle", caller |-> "", content |-> NoContent, source_name |-> "",
     url |-> "", document_type |-> "", filename |-> <<>>, now |-> 0,
     document_id |-> NoId, doc_type |-> "", failure |-> "", saved |-> FALSE,
     written |-> NoRecord, exc |-> "", result |-> NoRecord]

BatchIdle == [pc |-> "idle", documents |-> <<>>, results |-> <<>>, exc |-> ""]

NoPrev == [set |-> FALSE, call |-> PlIdle]

\* an element: its tag, its class, id and role attributes ("" when absent),
\* the text at its start and its child elements
Elem(tag, class, id, role, text, children) ==
    [tag |-> tag, class |-> class, id |-> id, role |-> role, text |-> text,
     children |-> children]

\* what find and select_one answer when nothing matches
NoElement == Elem("", "", "", "", <<>>, <<>>)

\* the dictionary clean_html returns
CleanResult(title, cleaned_text, quality_metrics, metadata, extraction_success, error) ==
    [title |-> title, cleaned_text |-> cleaned_text,
     quality_metrics |-> quality_metrics, metadata |-> metadata,
     extraction_success |-> extraction_success, error |-> error]

\* a clean_html call: its arguments (the page as the parser reads it, the
\* url), its locals, the exception caught and the returned dictionary
HcIdle ==
    [pc |-> "idle", html |-> [parses |-> FALSE, tree |-> NoElement], url |-> "",
     soup |-> NoElement, title |-> <<>>, main_content |-> <<>>,
     cleaned_text |-> <<>>, quality_metrics |-> TextQualityMetrics,
     stage |-> "", exc |-> "",
     result |-> CleanResult(<<>>, <<>>, TextQualityMetrics, NoMetadata, FALSE, "")]

\* no function applied
FnIdle == [pc |-> "idle", op |-> "", arg |-> <<>>, out |-> <<>>]

\* ---- SchoolDataExtractor: etl/pipelines/llm/extract_school_data.py ----

\* a JSON value as the code reads it: a dict with the keys it has
\* ("confidence_score" stands for extraction_metadata.confidence_score, kept in
\* hundredths), a list, or null / Python's None
JsonDict(keys, confidence_score) ==
    [type |-> "dict", keys |-> keys, confidence_score |-> confidence_score]

EmptyDict == JsonDict({}, 0)

JsonList == [type |-> "list", keys |-> {}, confidence_score |-> 0]

JsonNone == [type |-> "None", keys |-> {}, confidence_score |-> 0]

\* bool(value)
Truthy(value) ==
    \/ value.type = "list"
    \/ value.type = "dict" /\ value.keys # {}

\* a file of the cache directory: not there, there but not loadable as JSON,
\* or a JSON object; its cached_at is a naive ISO timestamp (stamp "iso", the
\* time in seconds), not one ("garbled": no ISO string, or one with a UTC
\* offset) or not there ("absent"); its result may be missing as well
NoFile ==
    [kind |-> "missing", stamp |-> "absent", cached_at |-> 0,
     has_result |-> FALSE, result |-> JsonNone]

UnreadableFile ==
    [kind |-> "unreadable", stamp |-> "absent", cached_at |-> 0,
     has_result |-> FALSE, result |-> JsonNone]

CacheFile(stamp, cached_at, has_result, result) ==
    [kind |-> "json", stamp |-> stamp, cached_at |-> cached_at,
     has_result |-> has_result, result |-> result]

\* the documents of the extracted-text directory: file name -> what
\* _load_extracted_text finds in it
Documents == {"a.json", "b.json", "broken.json"}

NoTextData == [loads |-> FALSE, document_id |-> "", url |-> "", content_hash |-> ""]

TextData(file_path) ==
    CASE file_path = "a.json" ->
           [loads |-> TRUE, document_id |-> "doc_a", url |-> "https://a.example",
            content_hash |-> "0f3a9c1e"]
      [] file_path = "b.json" ->
           [loads |-> TRUE, document_id |-> "doc_b", url |-> "https://b.example",
            content_hash |-> "77b2e4d0"]
      [] OTHER -> NoTextData

\* _get_cache_key: f"{document_id}_{content_hash}"
get_cache_key(document_id, content_hash) == <<document_id, "_", content_hash>>

CacheKeys ==
    {get_cache_key(TextData(d).document_id, TextData(d).content_hash) :
        d \in {x \in Documents : TextData(x).loads}}

\* __init__: the statistics, less the token and time totals
NoStats ==
    [total_processed |-> 0, successful_extractions |-> 0, failed_extractions |-> 0,
     cache_hits |-> 0, cache_misses |-> 0]

NoLlmResponse == [content |-> "", provider |-> "", tokens_used |-> 0]

NoExtraction ==
    [document_id |-> "", source_url |-> "", extracted_data |-> JsonNone,
     confidence_score |-> 0, tokens_used |-> 0, provider |-> "",
     success |-> FALSE, error_message |-> None]

\* BatchResult, less batch_id and the token and time totals
NoBatchResult == [results |-> <<>>, success_count |-> 0, error_count |-> 0]

\* the locals of an _extract_single_document coroutine before its await
NoLocals ==
    [file_path |-> "", text_data |-> NoTextData, cache_key |-> <<>>,
     lookup |-> [file |-> NoFile, now |-> 0], cached_result |-> JsonNone]

\* a coroutine of extract_batch's gather: not yet run ("new"), running,
\* suspended in its await ("waiting"), running again ("resumed"), or "done"
NewTask == [state |-> "new", locals |-> NoLocals, result |-> NoExtraction]

\* no extract_batch call is under way; out is what the last one returned
EbIdle ==
    [pc |-> "idle", file_paths |-> <<>>, tasks |-> <<>>, current |-> 0,
     out |-> NoBatchResult]

\* a SchoolDataExtractor between calls, with the clock (utcnow, in seconds)
\* and the cache directory it works on
SdIdle ==
    [pc |-> "idle", cache_dir |-> FALSE, files |-> [k \in CacheKeys |-> NoFile],
     stats |-> NoStats, now |-> 0, ticks |-> 0,
     file_path |-> "", text_data |-> NoTextData, cache_key |-> <<>>,
     lookup |-> [file |-> NoFile, now |-> 0], cached_result |-> JsonNone,
     llm_called |-> FALSE, llm_response |-> NoLlmResponse, raw_result |-> JsonNone,
     exc |-> None, result |-> NoExtraction, eb |-> EbIdle]

Init ==
    /\ proc \in Processes
    /\ pdf = PdfIdle
    /\ pl = PlIdle
    /\ batch = BatchIdle
    /\ prev = NoPrev
    /\ hc = HcIdle
    /\ fn = FnIdle
    /\ sd = SdIdle

\* extract_from_pdf is entered on an extractor built with cfg, in a process
\* where the OCR libraries are importable or not and the relative import of
\* text_cleaning resolves or not: start_time, errors = []
PdfEnter(caller, content, cfg) ==
    /\ pdf.pc = "idle"
    /\ pdf' = [PdfIdle EXCEPT !.pc = "metadata", !.caller = caller,
                              !.content = content, !.cfg = cfg,
                              !.OCR_AVAILABLE = proc.OCR_AVAILABLE,
                              !.import_ok = proc.import_ok]

\* extractor.extract_from_pdf(pdf_content, filename) called directly
PdfCall ==
    /\ pl.pc = "idle" /\ batch.pc = "idle" /\ hc.pc = "idle"
    /\ \E cfg \in PdfConfigs : PdfEnter("caller", NoContent, cfg)
    /\ UNCHANGED <<hc, fn, sd, proc, pl, batch, prev>>

\* metadata = self._extract_metadata(pdf_content)
PdfMetadataStep ==
    /\ pdf.pc = "metadata"
    /\ \E meta_ok \in MetaAnswers(pdf) :
        pdf' = [pdf EXCEPT !.pc = "direct",
                           !.metadata = extract_metadata(meta_ok),
                           !.metadata_failed = ~meta_ok]
    /\ UNCHANGED <<hc, fn, sd, proc, pl, batch, prev>>

\* direct_text, direct_confidence = self._extract_text_direct(pdf_content);
\* extraction_method, final_text, confidence_score = 'direct', ...
PdfDirectStep ==
    /\ pdf.pc = "direct"
    /\ \E a \in DirectAnswers(pdf) :
        pdf' = [pdf EXCEPT !.pc = "gate", !.direct_failed = ~a[1],
                           !.direct_text = extract_text_direct(a[1], a[2])[1],
                           !.direct_confidence = extract_text_direct(a[1], a[2])[2],
                           !.extraction_method = "direct",
                           !.final_text = extract_text_direct(a[1], a[2])[1],
                           !.confidence_score = extract_text_direct(a[1], a[2])[2]]
    /\ UNCHANGED <<hc, fn, sd, proc, pl, batch, prev>>

\* the if of the OCR fallback is taken: OCR runs and the selection follows
PdfOcrStep ==
    /\ pdf.pc = "gate"
    /\ OcrGate(pdf.cfg, pdf.OCR_AVAILABLE, pdf.direct_text, pdf.direct_confidence)
    /\ \E a \in OcrAnswers(pdf) :
        pdf' = [pdf EXCEPT !.pc = "select", !.ocr_ran = TRUE,
                           !.ocr_failed = pdf.OCR_AVAILABLE /\ ~a[1],
                           !.ocr_text = extract_text_ocr(a[1], a[2], pdf.OCR_AVAILABLE)[1],
                           !.ocr_confidence = extract_text_ocr(a[1], a[2], pdf.OCR_AVAILABLE)[2]]
    /\ UNCHANGED <<hc, fn, sd, proc, pl, batch, prev>>

\* the if of the OCR fallback is not taken
PdfSkipOcr ==
    /\ pdf.pc = "gate"
    /\ ~OcrGate(pdf.cfg, pdf.OCR_AVAILABLE, pdf.direct_text, pdf.direct_confidence)
    /\ pdf' = [pdf EXCEPT !.pc = "clean"]
    /\ UNCHANGED <<hc, fn, sd, proc, pl, batch, prev>>

\* if ocr_confidence > direct_confidence: ... elif ...: ... after OCR
PdfSelectStep ==
    /\ pdf.pc = "select"
    /\ pdf' = SelectStep(pdf)
    /\ UNCHANGED <<hc, fn, sd, proc, pl, batch, prev>>

\* final_text = self._clean_extracted_text(final_text)
PdfCleanStep ==
    /\ pdf.pc = "clean"
    /\ pdf' = [pdf EXCEPT !.pc = "metrics",
                          !.final_text = clean_extracted_text(pdf.final_text)]
    /\ UNCHANGED <<hc, fn, sd, proc, pl, batch, prev>>

\* quality_metrics = self._calculate_quality_metrics(final_text); return
PdfMetricsStep ==
    /\ pdf.pc = "metrics"
    /\ pdf' = MetricsStep(pdf)
    /\ UNCHANGED <<hc, fn, sd, proc, pl, batch, prev>>

\* except Exception as e: the failed result
PdfExcept ==
    /\ pdf.pc = "except"
    /\ pdf' = [pdf EXCEPT !.pc = "done", !.raised = TRUE,
                          !.errors = Append(pdf.errors, <<"PDF extraction failed", pdf.exc>>),
                          !.result = ExceptResult(pdf)]
    /\ UNCHANGED <<hc, fn, sd, proc, pl, batch, prev>>

\* the direct caller is done with the result
PdfDone ==
    /\ pdf.pc = "done"
    /\ pdf.caller = "caller"
    /\ pdf' = PdfIdle
    /\ UNCHANGED <<hc, fn, sd, proc, pl, batch, prev>>

NextPdf ==
    \/ PdfCall
    \/ PdfMetadataStep
    \/ PdfDirectStep
    \/ PdfOcrStep
    \/ PdfSkipOcr
    \/ PdfSelectStep
    \/ PdfCleanStep
    \/ PdfMetricsStep
    \/ PdfExcept
    \/ PdfDone

SpecPdf == Init /\ [][NextPdf]_vars

-----------------------------------------------------------------------------
(* Text Extraction Pipeline: etl/pipelines/extract/html_to_text.py         *)
(* The pipeline is built with the defaults: no s3_bucket, PDFTextExtractor() *)

\* the largest clock reading
MaxTime == 2
\* the longest batch
MaxBatch == 2

SourceNames == {"faa", "school"}
Urls == {"u1", "u2"}
\* "" stands for None and for '': "if not document_type" takes both
DocumentTypes == {"", "html", "pdf", "docx"}
FnPdf == <<65, 46, 80, 68, 70>>                                 \* A.PDF
\* <<>> stands for None and for '': "if filename" skips both
Filenames == {<<>>, FnPdf}
Times == 1..MaxTime

\* generate_content_hash hashing the code points of a str as they are.
generate_content_hash_unencoded(content) ==
    Ok([sha256 |-> content.data])

\* TextExtractionPipeline._generate_content_hash: the digest is kept as the
\* term sha256(octets), a function of the octets hashed and of nothing else
generate_content_hash(content) ==
    IF content.kind = "str"
    THEN (IF Utf8Encode(content.data).ok
          THEN Ok([sha256 |-> Utf8Encode(content.data).val])
          ELSE Raise(Utf8Encode(content.data).err))
    ELSE Ok([sha256 |-> content.data])

\* f"{source_name}_{content_hash[:12]}"
DocumentId(source_name, content_hash) ==
    [source_name |-> source_name, sha256_12 |-> content_hash.sha256]

\* _detect_document_type looking at the content before the filename
detect_document_type_content_first(content, filename) ==
    IF content.kind = "bytes" /\ StartsWith(content.data, LitPdfHeader) THEN "pdf"
    ELSE IF filename # <<>> /\ EndsWith(Lower(filename), LitDotPdf) THEN "pdf"
    ELSE "html"

\* TextExtractionPipeline._detect_document_type
detect_document_type(content, filename) ==
    IF filename # <<>> /\ EndsWith(Lower(filename), LitDotPdf) THEN "pdf"
    ELSE IF filename # <<>> /\ (\/ EndsWith(Lower(filename), LitDotHtml)
                                \/ EndsWith(Lower(filename), LitDotHtm)) THEN "html"
    ELSE IF content.kind = "bytes"
    THEN (IF StartsWith(content.data, LitPdfHeader) THEN "pdf"
          ELSE IF /\ Utf8Decode(content.data).ok
                  /\ \/ Contains(Lower(Utf8Decode(content.data).val), LitHtmlTag)
                     \/ Contains(Lower(Utf8Decode(content.data).val), LitDoctype)
          THEN "html"
          ELSE "html")
    ELSE IF \/ Contains(Lower(content.data), LitHtmlTag)
            \/ Contains(Lower(content.data), LitDoctype)
    THEN "html"
    ELSE "html"

\* Lines 206-217 of process_document on the call p: the content hash, the
\* document id and the document type; the exception of the hash leaves the call.
EnterStep(p) ==
    IF ~generate_content_hash(p.content).ok
    THEN [p EXCEPT !.pc = "raised", !.exc = generate_content_hash(p.content).err]
    ELSE [p EXCEPT !.pc = "dispatch",
                   !.document_id =
                       DocumentId(p.source_name, generate_content_hash(p.content).val),
                   !.doc_type =
                       IF p.document_type = ""
                       THEN detect_document_type(p.content, p.filename)
                       ELSE p.document_type]

\* HTMLCleaner.clean_html
clean_html(content, url) ==
    IF HtmlLibrary(content).ok
    THEN LET cleaned_text == clean_text(HtmlLibrary(content).main_content)
         IN  [title |-> HtmlLibrary(content).title,
              cleaned_text |-> cleaned_text,
              quality_metrics |-> calculate_quality_metrics(cleaned_text),
              metadata |-> [kind |-> "html", source_url |-> url],
              extraction_success |-> TRUE, error |-> None]
    ELSE [title |-> "", cleaned_text |-> <<>>, quality_metrics |-> TextQualityMetrics,
          metadata |-> NoMetadata,
          extraction_success |-> FALSE, error |-> HtmlLibrary(content).err]

\* TextExtractionPipeline._process_html_document
process_html_document(p) ==
    LET clean_result == clean_html(p.content, p.url)
    IN  IF ~clean_result.extraction_success
        THEN [DocumentExtractionResult(p.document_id, p.source_name, p.url, "html", <<>>)
                 EXCEPT !.errors = ErrorsOrEmpty(ErrorStr(clean_result.error)),
                        !.quality_metrics = clean_result.quality_metrics]
        ELSE [DocumentExtractionResult(p.document_id, p.source_name, p.url, "html",
                                       clean_result.cleaned_text)
                 EXCEPT !.title = clean_result.title,
                        !.metadata = clean_result.metadata,
                        !.quality_metrics = clean_result.quality_metrics,
                        !.extraction_method = "html_cleaning",
                        !.confidence_score = get_quality_score(clean_result.quality_metrics)]

\* TextExtractionPipeline._process_pdf_document, from the extractor's result
process_pdf_document(p, pdf_result) ==
    [DocumentExtractionResult(p.document_id, p.source_name, p.url, "pdf", pdf_result.text)
        EXCEPT !.metadata = [kind |-> "pdf", title |-> pdf_result.metadata.title,
                             author |-> pdf_result.metadata.author,
                             pages |-> pdf_result.metadata.pages,
                             file_size |-> pdf_result.metadata.file_size,
                             creation_date |-> pdf_result.metadata.creation_date],
               !.quality_metrics = pdf_result.quality_metrics,
               !.extraction_method = pdf_result.extraction_method,
               !.confidence_score = pdf_result.confidence_score,
               !.errors = ErrorsOrEmpty(ErrorList(pdf_result.errors))]

\* ErrorRecord appending to one errors list that the records of a batch share.
ErrorRecordSharedErrors(p, e) ==
    [DocumentExtractionResult(p.document_id, p.source_name, p.url,
                              IF p.doc_type = "" THEN "unknown" ELSE p.doc_type, <<>>)
        EXCEPT !.errors =
            ErrorList(Concat([i \in 1..Len(batch.results) |-> batch.results[i].errors.items])
                      \o << <<"Document processing failed">> \o e >>)]

\* Lines 235-250 of process_document: the record of the except branch for
\* the exception whose message is e
ErrorRecord(p, e) ==
    [DocumentExtractionResult(p.document_id, p.source_name, p.url,
                              IF p.doc_type = "" THEN "unknown" ELSE p.doc_type, <<>>)
        EXCEPT !.errors = ErrorList(<< <<"Document processing failed">> \o e >>)]

\* Lines 219-225 and 235-250 for a type that is neither 'html' nor 'pdf'
UnsupportedStep(p) ==
    [p EXCEPT !.pc = "returned", !.failure = "unsupported",
              !.exc = "Unsupported document type",
              !.result = ErrorRecord(p, <<"Unsupported document type", p.doc_type>>)]

\* SaveStep returning the extracted record when _save_result raises.
SaveStepKeepsRecord(p, save_ok) ==
    IF save_ok THEN [p EXCEPT !.pc = "returned", !.saved = TRUE, !.written = p.result]
    ELSE [p EXCEPT !.pc = "returned", !.failure = "escaped",
                   !.exc = "[Errno 28] No space left on device"]

\* Lines 227-233 and 235-250: _save_result writes the file and the record is
\* returned, or raises and the record of the except branch is returned
SaveStep(p, save_ok) ==
    IF save_ok THEN [p EXCEPT !.pc = "returned", !.saved = TRUE, !.written = p.result]
    ELSE [p EXCEPT !.pc = "returned", !.failure = "escaped",
                   !.exc = "[Errno 28] No space left on device",
                   !.result = ErrorRecord(p, <<"[Errno 28] No space left on device">>)]

\* A document dict of a batch: has is the set of its keys, a key it lacks
\* holds the value doc.get(key) answers.
Doc(has, content, source_name, url, document_type, filename) ==
    [has |-> has, content |-> content, source_name |-> source_name, url |-> url,
     document_type |-> document_type, filename |-> filename]

RequiredKeys == {"content", "source_name", "url"}

DocHtml == Doc(RequiredKeys, CHtml, "faa", "u1", "", <<>>)
DocScan == Doc(RequiredKeys \cup {"filename"}, CScan, "faa", "u2", "", FnPdf)
DocDocx == Doc(RequiredKeys \cup {"document_type"}, CHtmlB, "school", "u1", "docx", <<>>)
DocDeep == Doc(RequiredKeys \cup {"document_type"}, CDeep, "school", "u2", "html", <<>>)
DocSurr == Doc(RequiredKeys, CSurr, "faa", "u1", "", <<>>)
DocNoContent == Doc({"source_name", "url"}, NoContent, "faa", "u1", "", <<>>)

\* the documents process_document is called on alone before a batch, those
\* a call is remembered for, and those batches are made of
DocPool == {DocHtml, DocScan, DocDocx, DocDeep, DocSurr}
RememberedDocs == {DocHtml, DocScan, DocDocx}
BatchDocs == {DocHtml, DocScan, DocDocx, DocSurr, DocNoContent}
Batches == UNION {[1..k -> BatchDocs] : k \in 0..MaxBatch}

\* the first of the keys doc['content'], doc['source_name'], doc['url'] that
\* the dict lacks, "" if it has them all
MissingKey(doc) ==
    IF "content" \notin doc.has THEN "content"
    ELSE IF "source_name" \notin doc.has THEN "source_name"
    ELSE IF "url" \notin doc.has THEN "url"
    ELSE ""

\* the call p has the arguments batch_process_documents passes for doc
IsCallOn(p, doc) ==
    /\ p.content = doc.content /\ p.source_name = doc.source_name /\ p.url = doc.url
    /\ p.document_type = doc.document_type /\ p.filename = doc.filename

\* process_document is entered: lines 206-217
PdEnter(caller, content, source_name, url, document_type, filename, now) ==
    /\ pl.pc = "idle" /\ pdf.pc = "idle"
    /\ pl' = EnterStep([PlIdle EXCEPT !.caller = caller, !.content = content,
                                      !.source_name = source_name, !.url = url,
                                      !.document_type = document_type,
                                      !.filename = filename, !.now = now])

\* pipeline.process_document(content, source_name, url, document_type, filename)
PdCall ==
    /\ batch.pc = "idle"
    /\ \E content \in Contents, source_name \in SourceNames, url \in Urls,
          document_type \in DocumentTypes, filename \in Filenames, now \in Times :
        PdEnter("alone", content, source_name, url, document_type, filename, now)
    /\ UNCHANGED <<hc, fn, sd, proc, pdf, batch, prev>>

\* pipeline.process_document on a document of the pool
PdCallDoc ==
    /\ batch.pc = "idle"
    /\ \E doc \in DocPool, now \in Times :
        PdEnter("alone", doc.content, doc.source_name, doc.url,
                doc.document_type, doc.filename, now)
    /\ UNCHANGED <<hc, fn, sd, proc, pdf, batch, prev>>

\* if document_type == 'html': result = self._process_html_document(...)
PdHtml ==
    /\ pl.pc = "dispatch" /\ pl.doc_type = "html"
    /\ pl' = [pl EXCEPT !.pc = "save",
                        !.failure = IF HtmlLibrary(pl.content).ok THEN "" ELSE "html",
                        !.result = process_html_document(pl)]
    /\ UNCHANGED <<hc, fn, sd, proc, pdf, batch, prev>>

\* elif document_type == 'pdf': self.pdf_extractor.extract_from_pdf is called
PdPdfCall ==
    /\ pl.pc = "dispatch" /\ pl.doc_type = "pdf"
    /\ PdfEnter("pipeline", pl.content, DefaultPdfConfig)
    /\ pl' = [pl EXCEPT !.pc = "pdf"]
    /\ UNCHANGED <<hc, fn, sd, proc, batch, prev>>

\* extract_from_pdf has returned: the rest of _process_pdf_document
PdPdfReturn ==
    /\ pl.pc = "pdf" /\ pdf.pc = "done"
    /\ pl' = [pl EXCEPT !.pc = "save",
                        !.failure = IF pdf.result.extraction_method = "failed"
                                    THEN "pdf" ELSE "",
                        !.result = process_pdf_document(pl, pdf.result)]
    /\ pdf' = PdfIdle
    /\ UNCHANGED <<hc, fn, sd, proc, batch, prev>>

\* else: raise ValueError(...), caught by the except branch
PdUnsupported ==
    /\ pl.pc = "dispatch" /\ pl.doc_type \notin {"html", "pdf"}
    /\ pl' = UnsupportedStep(pl)
    /\ UNCHANGED <<hc, fn, sd, proc, pdf, batch, prev>>

\* self._save_result(result); return result, or the except branch
PdSave ==
    /\ pl.pc = "save"
    /\ \E save_ok \in BOOLEAN : pl' = SaveStep(pl, save_ok)
    /\ UNCHANGED <<hc, fn, sd, proc, pdf, batch, prev>>

\* the caller of process_document is done with the record or the exception
PdDone ==
    /\ pl.pc \in {"returned", "raised"} /\ pl.caller = "alone"
    /\ pl' = PlIdle
    /\ UNCHANGED <<hc, fn, sd, proc, pdf, batch, prev>>

\* the same, the call being kept for the comparisons when it returned a
\* record for a document of the pool
PdRemember ==
    /\ pl.pc = "returned" /\ pl.caller = "alone"
    /\ \E doc \in RememberedDocs : IsCallOn(pl, doc)
    /\ prev' = [set |-> TRUE, call |-> pl]
    /\ pl' = PlIdle
    /\ UNCHANGED <<hc, fn, sd, proc, pdf, batch>>

\* the steps of extract_from_pdf inside a process_document call
PdfSteps ==
    \/ PdfMetadataStep
    \/ PdfDirectStep
    \/ PdfOcrStep
    \/ PdfSkipOcr
    \/ PdfSelectStep
    \/ PdfCleanStep
    \/ PdfMetricsStep
    \/ PdfExcept

NextDoc ==
    \/ PdCall
    \/ PdHtml
    \/ PdPdfCall
    \/ PdfSteps
    \/ PdPdfReturn
    \/ PdUnsupported
    \/ PdSave
    \/ PdDone
    \/ PdRemember

SpecDoc == Init /\ [][NextDoc]_vars

\* pipeline.batch_process_documents(documents)
BatchCall ==
    /\ batch.pc = "idle" /\ pl.pc = "idle" /\ pdf.pc = "idle"
    /\ \E documents \in Batches :
        batch' = [BatchIdle EXCEPT !.pc = "loop", !.documents = documents]
    /\ UNCHANGED <<hc, fn, sd, proc, pdf, pl, prev>>

\* for doc in documents: doc['content'], doc['source_name'] or doc['url']
\* raises KeyError, which leaves batch_process_documents
BatchKeyError ==
    /\ batch.pc = "loop" /\ pl.pc = "idle"
    /\ Len(batch.results) < Len(batch.documents)
    /\ MissingKey(batch.documents[Len(batch.results) + 1]) # ""
    /\ batch' = [batch EXCEPT !.pc = "raised",
                              !.exc = MissingKey(batch.documents[Len(batch.results) + 1])]
    /\ UNCHANGED <<hc, fn, sd, proc, pdf, pl, prev>>

\* for doc in documents: result = self.process_document(...)
BatchItem ==
    /\ batch.pc = "loop"
    /\ Len(batch.results) < Len(batch.documents)
    /\ MissingKey(batch.documents[Len(batch.results) + 1]) = ""
    /\ \E now \in Times :
        PdEnter("batch",
                batch.documents[Len(batch.results) + 1].content,
                batch.documents[Len(batch.results) + 1].source_name,
                batch.documents[Len(batch.results) + 1].url,
                batch.documents[Len(batch.results) + 1].document_type,
                batch.documents[Len(batch.results) + 1].filename, now)
    /\ UNCHANGED <<hc, fn, sd, proc, pdf, batch, prev>>

\* results.append(result)
BatchAppend ==
    /\ pl.pc = "returned" /\ pl.caller = "batch"
    /\ batch' = [batch EXCEPT !.results = Append(batch.results, pl.result)]
    /\ pl' = PlIdle
    /\ UNCHANGED <<hc, fn, sd, proc, pdf, prev>>

\* the exception of a process_document call leaves batch_process_documents
BatchItemRaised ==
    /\ pl.pc = "raised" /\ pl.caller = "batch"
    /\ batch' = [batch EXCEPT !.pc = "raised", !.exc = pl.exc]
    /\ pl' = PlIdle
    /\ UNCHANGED <<hc, fn, sd, proc, pdf, prev>>

\* self._save_batch_summary(results); return results: the summary file is
\* written, or writing it raises
BatchSummary ==
    /\ batch.pc = "loop" /\ pl.pc = "idle"
    /\ Len(batch.results) = Len(batch.documents)
    /\ \E summary_ok \in BOOLEAN :
        batch' = IF summary_ok THEN [batch EXCEPT !.pc = "returned"]
                 ELSE [batch EXCEPT !.pc = "raised",
                                    !.exc = "[Errno 28] No space left on device"]
    /\ UNCHANGED <<hc, fn, sd, proc, pdf, pl, prev>>

\* the caller of batch_process_documents is done with it
BatchDone ==
    /\ batch.pc \in {"returned", "raised"}
    /\ batch' = BatchIdle
    /\ UNCHANGED <<hc, fn, sd, proc, pdf, pl, prev>>

NextBatch ==
    \/ PdCallDoc
    \/ PdHtml
    \/ PdPdfCall
    \/ PdfSteps
    \/ PdPdfReturn
    \/ PdUnsupported
    \/ PdSave
    \/ PdDone
    \/ PdRemember
    \/ BatchCall
    \/ BatchKeyError
    \/ BatchItem
    \/ BatchAppend
    \/ BatchItemRaised
    \/ BatchSummary
    \/ BatchDone

SpecBatch == Init /\ [][NextBatch]_vars

-----------------------------------------------------------------------------
(* Properties of extract_from_pdf.                                         *)

\* the positions of a call after the OCR gate
PastGate == {"select", "clean", "metrics", "except", "done"}

PdfReturned == pdf.pc = "done"

\* C5, as claimed: in one extract_from_pdf call OCR runs if and only if OCR is
\* enabled, direct_confidence < ocr_min_confidence and the direct text has
\* fewer than 1000 characters.
C5_OcrGateRawLength ==
    pdf.pc \in PastGate =>
        (pdf.ocr_ran <=>
            /\ pdf.cfg.ocr_fallback /\ pdf.OCR_AVAILABLE
            /\ RLt(pdf.direct_confidence, pdf.cfg.ocr_min_confidence)
            /\ TextLen(pdf.direct_text) < OcrTextLimit)

\* C5, amended: in one extract_from_pdf call OCR runs if and only if OCR is
\* enabled (asked for and its libraries importable), direct_confidence <
\* ocr_min_confidence and the direct text, stripped of leading and trailing
\* whitespace, has fewer than 1000 characters.
C5_OcrGate ==
    pdf.pc \in PastGate =>
        (pdf.ocr_ran <=>
            /\ pdf.cfg.ocr_fallback /\ pdf.OCR_AVAILABLE
            /\ RLt(pdf.direct_confidence, pdf.cfg.ocr_min_confidence)
            /\ TextLen(Strip(pdf.direct_text)) < OcrTextLimit)

\* OCR has run on a direct text of 1000 characters or more.
C5_Witness ==
    /\ PdfReturned /\ pdf.ocr_ran
    /\ TextLen(pdf.direct_text) >= OcrTextLimit

\* what C6 names for the locals of a call, with the lengths of the raw texts
ClaimedMethodRaw(p) ==
    IF p.ocr_ran /\ RLt(p.direct_confidence, p.ocr_confidence) THEN "ocr"
    ELSE IF /\ p.ocr_ran /\ RLe(p.ocr_confidence, p.direct_confidence)
            /\ p.ocr_text # <<>>
            /\ TextLen(p.ocr_text) > TextLen(p.direct_text)
    THEN "hybrid"
    ELSE "direct"

\* the same with the lengths of the stripped texts
ClaimedMethod(p) ==
    IF p.ocr_ran /\ RLt(p.direct_confidence, p.ocr_confidence) THEN "ocr"
    ELSE IF /\ p.ocr_ran /\ RLe(p.ocr_confidence, p.direct_confidence)
            /\ p.ocr_text # <<>>
            /\ TextLen(Strip(p.ocr_text)) > TextLen(Strip(p.direct_text))
    THEN "hybrid"
    ELSE "direct"

\* C6, as claimed: when no exception escapes, extraction_method is "ocr" if
\* OCR ran and ocr_confidence > direct_confidence, "hybrid" if OCR ran,
\* ocr_confidence <= direct_confidence and the OCR text is non-empty and
\* strictly longer than the direct text, and "direct" in every other case.
C6_MethodRawLength ==
    PdfReturned /\ ~pdf.raised => pdf.result.extraction_method = ClaimedMethodRaw(pdf)

\* C6, amended: the same, the two lengths compared being those of the texts
\* stripped of leading and trailing whitespace.
C6_Method ==
    PdfReturned /\ ~pdf.raised => pdf.result.extraction_method = ClaimedMethod(pdf)

\* A hybrid result whose OCR text is no longer than the direct text.
C6_Witness ==
    /\ PdfReturned /\ ~pdf.raised
    /\ pdf.result.extraction_method = "hybrid"
    /\ TextLen(pdf.ocr_text) <= TextLen(pdf.direct_text)

\* C7: a call in which an exception reached the except branch returns a
\* result with extraction_method "failed", empty text, confidence 0, the
\* default metadata, zero quality metrics, and the exception's message as the
\* last entry of errors.
C7_FailedResult ==
    PdfReturned /\ pdf.raised =>
        /\ pdf.result.extraction_method = "failed"
        /\ pdf.result.text = <<>>
        /\ pdf.result.confidence_score = RZero
        /\ pdf.result.metadata = PDFMetadata
        /\ pdf.result.quality_metrics = TextQualityMetrics
        /\ pdf.result.errors # <<>>
        /\ pdf.result.errors[Len(pdf.result.errors)] = <<"PDF extraction failed", pdf.exc>>

\* A call fails after its metadata and a non-empty direct text were extracted.
C7_Witness ==
    /\ PdfReturned /\ pdf.raised
    /\ ~pdf.metadata_failed /\ pdf.metadata # PDFMetadata
    /\ pdf.direct_text # <<>>
    /\ pdf.exc # ""

\* C8: the confidence_score of the result is direct_confidence for "direct",
\* ocr_confidence for "ocr", the larger of the two for "hybrid", 0 for "failed".
C8_Confidence ==
    PdfReturned =>
        /\ pdf.result.extraction_method \in {"direct", "ocr", "hybrid", "failed"}
        /\ pdf.result.extraction_method = "direct"
              => pdf.result.confidence_score = pdf.direct_confidence
        /\ pdf.result.extraction_method = "ocr"
              => pdf.result.confidence_score = pdf.ocr_confidence
        /\ pdf.result.extraction_method = "hybrid"
              => pdf.result.confidence_score = RMax(pdf.direct_confidence, pdf.ocr_confidence)
        /\ pdf.result.extraction_method = "failed"
              => pdf.result.confidence_score = RZero

\* A hybrid result whose two confidences differ.
C8_Witness ==
    /\ PdfReturned
    /\ pdf.result.extraction_method = "hybrid"
    /\ RLt(pdf.ocr_confidence, pdf.direct_confidence)

-----------------------------------------------------------------------------
(* Properties of process_document and batch_process_documents.             *)

PdReturned == pl.pc = "returned"

\* C1, as claimed: process_document never propagates an exception; whatever
\* the content, the document type, the extractor's failure and the failure
\* of saving, the call returns a DocumentExtractionResult.
C1_NeverRaises == pl.pc # "raised"

\* C2, as claimed: every record process_document returns for a document whose
\* extraction failed (HTML cleaning failed, the PDF extractor failed, the type
\* was unsupported, or an error escaped dispatch) has empty text,
\* confidence_score 0, extraction_method "failed" and a non-empty errors list.
C2_FailedRecord ==
    PdReturned /\ pl.failure # "" =>
        /\ pl.result.extracted_text = <<>>
        /\ pl.result.confidence_score = RZero
        /\ pl.result.extraction_method = "failed"
        /\ pl.result.errors.list /\ pl.result.errors.items # <<>>

\* C3, as claimed: batch_process_documents returns one record per input, in
\* input order, and no item (a failing extractor, an unsupported type, a
\* missing field) makes the batch raise or lose a record: the call raises
\* only once every item has its record, when the summary cannot be written.
C3_BatchOnePerInput ==
    /\ batch.pc = "raised" => Len(batch.results) = Len(batch.documents)
    /\ batch.pc = "returned" =>
          /\ Len(batch.results) = Len(batch.documents)
          /\ \A i \in 1..Len(batch.results) :
                /\ batch.results[i].source_name = batch.documents[i].source_name
                /\ batch.results[i].url = batch.documents[i].url

\* the fields of a record that C4 names
CoreFields(r) ==
    [document_id |-> r.document_id, document_type |-> r.document_type,
     extracted_text |-> r.extracted_text, quality_metrics |-> r.quality_metrics,
     extraction_method |-> r.extraction_method,
     confidence_score |-> r.confidence_score, errors |-> r.errors]

\* two calls with the same arguments for which saving answered the same
SameCall(p, q) ==
    /\ p.content = q.content /\ p.source_name = q.source_name /\ p.url = q.url
    /\ p.document_type = q.document_type /\ p.filename = q.filename
    /\ p.saved = q.saved

\* C4: the record process_document returns for a document inside a batch
\* equals, in document_id, document_type, text, quality metrics,
\* extraction_method, confidence_score and errors, the record it returned for
\* that document alone, in the same process and with the same answer of the
\* file system, whatever the batch's other items and the document's position.
C4_BatchIndependent ==
    /\ PdReturned /\ pl.caller = "batch"
    /\ prev.set /\ SameCall(pl, prev.call)
    => CoreFields(pl.result) = CoreFields(prev.call.result)

\* The second item of a batch returns a record with errors, after a first
\* item that left errors too, for a document also processed alone.
C4_Witness ==
    /\ PdReturned /\ pl.caller = "batch"
    /\ prev.set /\ SameCall(pl, prev.call)
    /\ Len(batch.results) = 1
    /\ batch.results[1].errors.items # <<>>
    /\ pl.result.errors.items # <<>>

\* c1 is a str and c2 the bytes of its UTF-8 encoding
EncodesTo(c1, c2) ==
    /\ c1.kind = "str" /\ c2.kind = "bytes"
    /\ Utf8Encode(c1.data).ok
    /\ Utf8Encode(c1.data).val = c2.data

SameContent(c1, c2) == c1 = c2 \/ EncodesTo(c1, c2) \/ EncodesTo(c2, c1)

\* C9: two process_document calls with the same source_name and the same
\* content, or a str and the bytes of its UTF-8 encoding, return records
\* with the same document_id, whatever their url, filename, document_type and
\* time of call.
C9_DocumentId ==
    /\ PdReturned => pl.result.document_id = pl.document_id
    /\ /\ PdReturned /\ prev.set
       /\ pl.source_name = prev.call.source_name
       /\ SameContent(pl.content, prev.call.content)
       => pl.result.document_id = prev.call.result.document_id

\* A str and, in a later call with another url, filename, document_type and
\* time, the bytes of its encoding with a non-ASCII character.
C9_Witness ==
    /\ PdReturned /\ prev.set
    /\ pl.source_name = prev.call.source_name
    /\ pl.content # prev.call.content
    /\ EncodesTo(prev.call.content, pl.content)
    /\ Len(pl.content.data) > Len(prev.call.content.data)
    /\ pl.url # prev.call.url
    /\ pl.filename # prev.call.filename
    /\ pl.document_type # prev.call.document_type
    /\ pl.now # prev.call.now

\* C10, as claimed: the document_type of every record process_document
\* returns is "html" or "pdf", on the error path and for a caller-supplied
\* type too.
C10_DocumentType ==
    PdReturned => pl.result.document_type \in {"html", "pdf"}


-----------------------------------------------------------------------------
(* The Quality Scorer, the cleaning rules, the PDF date parser and the     *)
(* acceptance predicate, each applied to one argument.                     *)

\* "...": no word, two sentences' worth of splits
TDots == Chars(".", 3)
TBlank == Chars(" ", 4)
\* 120 two-letter words and no full stop: one sentence of 120 words
TRunOn == Norm(Repeat(Chars("a", 2) \o Chars(" ", 1), 120))
\* "a1 b2 c3.": three words that are not all letters
TMixed == Norm(Repeat(Chars("a", 1) \o Chars("1", 1) \o Chars(" ", 1), 3)
               \o Chars(".", 1))

MetricTexts == DirectTexts \cup {TDots, TBlank, TRunOn, TMixed}

\* "Chapter 1": a line of 9 characters
TShortLine == Chars("a", 7) \o Chars(" ", 1) \o Chars("1", 1)
\* "12" between two lines of prose, with blank lines around it
TPageNumber ==
    TWords2 \o Chars("\n", 3) \o Chars("1", 2) \o Chars("\n", 2) \o TWords2
\* 30 symbols
TSymbols30 == Chars("#", 30)

CleanTexts == MetricTexts \cup {TShortLine, TPageNumber, TSymbols30}

\* TextQualityMetrics(total_words=w, readability_score=r, language_confidence=l)
Metrics(w, r, l) ==
    [TextQualityMetrics EXCEPT !.total_words = w, !.readability_score = r,
                               !.language_confidence = l]

ScoreWords == {0, 1, 100, 199, 200, 201, 400}
ScoreReadabilities == {RZero, RInt(50), RInt(100), RInt(150)}
ScoreLanguages == {RZero, Rat(1, 2), RInt(1)}

\* the metrics of the texts above, and metrics built field by field
ScoreArgs ==
    {calculate_quality_metrics(t) : t \in MetricTexts}
    \cup {Metrics(w, r, l) :
            w \in ScoreWords, r \in ScoreReadabilities, l \in ScoreLanguages}

\* two metrics that differ in total_words only
ScorePairs ==
    {[lo |-> Metrics(w[1], r, l), hi |-> Metrics(w[2], r, l)] :
        w \in {v \in ScoreWords \X ScoreWords : v[1] <= v[2]},
        r \in ScoreReadabilities, l \in ScoreLanguages}

\* meets_quality_thresholds that asks for more than the minimum confidence
meets_quality_thresholds_above(r, min_words, min_readability, min_confidence) ==
    /\ r.quality_metrics.total_words >= min_words
    /\ RLe(min_readability, r.quality_metrics.readability_score)
    /\ RLt(min_confidence, r.confidence_score)
    /\ r.quality_metrics.has_meaningful_content
    /\ Len(r.errors.items) = 0

\* DocumentExtractionResult.meets_quality_thresholds
meets_quality_thresholds(r, min_words, min_readability, min_confidence) ==
    /\ r.quality_metrics.total_words >= min_words
    /\ RLe(min_readability, r.quality_metrics.readability_score)
    /\ RLe(min_confidence, r.confidence_score)
    /\ r.quality_metrics.has_meaningful_content
    /\ Len(r.errors.items) = 0

\* min_words=50, min_readability=20.0, min_confidence=60.0, and a caller's
\* own thresholds
DefaultThresholds ==
    [min_words |-> 50, min_readability |-> RInt(20), min_confidence |-> RInt(60)]
ThresholdSets ==
    {DefaultThresholds,
     [min_words |-> 10, min_readability |-> RInt(50), min_confidence |-> RInt(90)]}

\* records built by DocumentExtractionResult(...): metrics around the
\* thresholds, with and without errors, of either document type
ThresholdRecords ==
    {[DocumentExtractionResult(NoId, "faa", "u1", t, TWords2) EXCEPT
          !.quality_metrics =
              [TextQualityMetrics EXCEPT !.total_words = w,
                                         !.readability_score = r,
                                         !.has_meaningful_content = h],
          !.confidence_score = c,
          !.errors = ErrorsOrEmpty(e)] :
        t \in {"html", "pdf"}, w \in {49, 50, 60}, r \in {RInt(19), RInt(20), RInt(90)},
        h \in BOOLEAN, c \in {RInt(59), RInt(60), RInt(100)},
        e \in {ErrorList(<<>>), ErrorList(<< <<"warning">> >>)}}

ThresholdArgs == {[record |-> r, thresholds |-> t] : r \in ThresholdRecords, t \in ThresholdSets}

\* Python values handed to _parse_pdf_date: None, a str or a bytes object,
\* each character or octet one element of chars
DateNone == [type |-> "NoneType", chars |-> <<>>]
DateStr(chars) == [type |-> "str", chars |-> chars]
DateBytes(chars) == [type |-> "bytes", chars |-> chars]

\* s[lo:hi] with 0 <= lo <= hi, in Python's 0-based half-open indexing
Slice(s, lo, hi) ==
    LET top == IF hi < Len(s) THEN hi ELSE Len(s)
    IN  IF lo >= top THEN <<>> ELSE SubSeq(s, lo + 1, top)

\* PDFTextExtractor._parse_pdf_date: the returned str, or None
parse_pdf_date(date_string) ==
    IF date_string.type = "NoneType" \/ date_string.chars = <<>> THEN None
    ELSE IF date_string.type = "str" /\ Slice(date_string.chars, 0, 2) = <<"D", ":">>
    THEN LET date_part == Slice(date_string.chars, 2, 16)
             year == Slice(date_part, 0, 4)
             month == Slice(date_part, 4, 6)
             day == Slice(date_part, 6, 8)
             hour == IF Len(date_part) > 8 THEN Slice(date_part, 8, 10) ELSE <<"0", "0">>
             minute == IF Len(date_part) > 10 THEN Slice(date_part, 10, 12) ELSE <<"0", "0">>
             second == IF Len(date_part) > 12 THEN Slice(date_part, 12, 14) ELSE <<"0", "0">>
         IN  IF Len(date_part) >= 8
             THEN year \o <<"-">> \o month \o <<"-">> \o day \o <<" ">>
                  \o hour \o <<":">> \o minute \o <<":">> \o second
             ELSE None
    ELSE None

\* D:20240115103045+05'00'
FullDate ==
    <<"D", ":", "2", "0", "2", "4", "0", "1", "1", "5", "1", "0", "3", "0", "4", "5",
      "+", "0", "5", "'", "0", "0", "'">>

\* the value with its character at position i replaced by a letter
Garbled(s, i) == [s EXCEPT ![i] = "x"]

\* None, '', the full date as str and as bytes, every truncation of it, the
\* date without its prefix, and the 8- and 14-digit dates with one character
\* that is not a digit
DateArgs ==
    {DateNone, DateStr(<<>>), DateBytes(FullDate), DateStr(Slice(FullDate, 2, 16))}
    \cup {DateStr(Slice(FullDate, 0, k)) : k \in 1..Len(FullDate)}
    \cup {DateStr(Garbled(Slice(FullDate, 0, 10), i)) : i \in 3..10}
    \cup {DateStr(Garbled(Slice(FullDate, 0, 16), i)) : i \in 3..16}

\* raw lines for _clean_text: 9 and 10 letters; 20 and 21 symbols; 30
\* characters with 9 and with 8 letters; 10 and 9 letters between blanks; two
\* words 6 blanks apart; an empty line
CleanLines ==
    {Chars("a", 9), Chars("a", 10), Chars("#", 20), Chars("#", 21),
     Chars("a", 9) \o Chars("#", 21), Chars("a", 8) \o Chars("#", 22),
     Chars(" ", 2) \o Chars("a", 10) \o Chars(" ", 2),
     Chars(" ", 3) \o Chars("a", 9) \o Chars(" ", 1),
     Chars("a", 4) \o Chars(" ", 6) \o Chars("a", 1),
     <<>>}

\* the most lines of a text given to _clean_text
MaxLines == 2

LineTexts ==
    {Norm(JoinLines(ls)) : ls \in UNION {[1..k -> CleanLines] : k \in 1..MaxLines}}

\* contents and filenames for _detect_document_type
CPdfStr == Str(<<37, 80, 68, 70, 45, 49>>)                      \* '%PDF-1'
CDoctypeB ==                                                    \* b'<!DOCTYPE HTML>'
    Bytes(<<60, 33, 68, 79, 67, 84, 89, 80, 69, 32, 72, 84, 77, 76, 62>>)
CPlainB == Bytes(<<104, 105>>)                                  \* b'hi'
FnHtml == <<97, 46, 104, 116, 109, 108>>                        \* a.html
FnHtm == <<65, 46, 72, 84, 77>>                                 \* A.HTM
FnTxt == <<97, 46, 116, 120, 116>>                              \* a.txt
FnNoDot == <<112, 100, 102>>                                    \* pdf
FnPdfBak == <<97, 46, 112, 100, 102, 46, 98, 97, 107>>          \* a.pdf.bak

DetectArgs ==
    [content : Contents \cup {NoContent, CPdfStr, CDoctypeB, CPlainB},
     filename : {<<>>, FnPdf, FnHtml, FnHtm, FnTxt, FnNoDot, FnPdfBak}]

FnCall(op, arg) == [pc |-> "ready", op |-> op, arg |-> arg, out |-> <<>>]
FnReturn(f, out) == [f EXCEPT !.pc = "done", !.out = out]

FnCalls ==
    {FnCall("get_quality_score", m) : m \in ScoreArgs}
    \cup {FnCall("get_quality_score twice", p) : p \in ScorePairs}
    \cup {FnCall("_calculate_quality_metrics", t) : t \in MetricTexts}
    \cup {FnCall("meets_quality_thresholds", a) : a \in ThresholdArgs}
    \cup {FnCall("_clean_text and _clean_extracted_text", t) : t \in CleanTexts}
    \cup {FnCall("_parse_pdf_date", d) : d \in DateArgs}
    \cup {FnCall("_detect_document_type", a) : a \in DetectArgs}
    \cup {FnCall("_clean_text", t) : t \in LineTexts}

InitFn ==
    /\ proc \in Processes
    /\ pdf = PdfIdle
    /\ pl = PlIdle
    /\ batch = BatchIdle
    /\ prev = NoPrev
    /\ hc = HcIdle
    /\ sd = SdIdle
    /\ fn \in FnCalls

\* TextQualityChecker.get_quality_score(metrics)
QualityScore ==
    /\ fn.pc = "ready" /\ fn.op = "get_quality_score"
    /\ fn' = FnReturn(fn, get_quality_score(fn.arg))
    /\ UNCHANGED <<proc, pdf, pl, batch, prev, hc, sd>>

\* get_quality_score on two metrics, one after the other
QualityScoreTwice ==
    /\ fn.pc = "ready" /\ fn.op = "get_quality_score twice"
    /\ fn' = FnReturn(fn, <<get_quality_score(fn.arg.lo),
                            get_quality_score(fn.arg.hi)>>)
    /\ UNCHANGED <<proc, pdf, pl, batch, prev, hc, sd>>

\* HTMLCleaner._calculate_quality_metrics(text)
QualityMetrics ==
    /\ fn.pc = "ready" /\ fn.op = "_calculate_quality_metrics"
    /\ fn' = FnReturn(fn, calculate_quality_metrics(fn.arg))
    /\ UNCHANGED <<proc, pdf, pl, batch, prev, hc, sd>>

\* record.meets_quality_thresholds(min_words, min_readability, min_confidence)
MeetsQualityThresholds ==
    /\ fn.pc = "ready" /\ fn.op = "meets_quality_thresholds"
    /\ fn' = FnReturn(fn, meets_quality_thresholds(fn.arg.record,
                                                   fn.arg.thresholds.min_words,
                                                   fn.arg.thresholds.min_readability,
                                                   fn.arg.thresholds.min_confidence))
    /\ UNCHANGED <<proc, pdf, pl, batch, prev, hc, sd>>

\* HTMLCleaner._clean_text(text) and PDFTextExtractor._clean_extracted_text(text)
\* on one raw text
CleanBoth ==
    /\ fn.pc = "ready" /\ fn.op = "_clean_text and _clean_extracted_text"
    /\ fn' = FnReturn(fn, [html |-> clean_text(fn.arg),
                           pdf |-> clean_extracted_text(fn.arg)])
    /\ UNCHANGED <<proc, pdf, pl, batch, prev, hc, sd>>

\* PDFTextExtractor._parse_pdf_date(date_string)
ParsePdfDate ==
    /\ fn.pc = "ready" /\ fn.op = "_parse_pdf_date"
    /\ fn' = FnReturn(fn, parse_pdf_date(fn.arg))
    /\ UNCHANGED <<proc, pdf, pl, batch, prev, hc, sd>>

\* TextExtractionPipeline._detect_document_type(content, filename)
DetectDocumentType ==
    /\ fn.pc = "ready" /\ fn.op = "_detect_document_type"
    /\ fn' = FnReturn(fn, detect_document_type(fn.arg.content, fn.arg.filename))
    /\ UNCHANGED <<proc, pdf, pl, batch, prev, hc, sd>>

\* HTMLCleaner._clean_text(text)
CleanText ==
    /\ fn.pc = "ready" /\ fn.op = "_clean_text"
    /\ fn' = FnReturn(fn, clean_text(fn.arg))
    /\ UNCHANGED <<proc, pdf, pl, batch, prev, hc, sd>>

NextFn ==
    \/ QualityScore
    \/ QualityScoreTwice
    \/ QualityMetrics
    \/ MeetsQualityThresholds
    \/ CleanBoth
    \/ ParsePdfDate
    \/ DetectDocumentType
    \/ CleanText

SpecFn == InitFn /\ [][NextFn]_vars

-----------------------------------------------------------------------------
(* Properties of the Quality Scorer.                                       *)

FnDone(op) == fn.pc = "done" /\ fn.op = op

\* 0.4*min(100, total_words/2) + 0.3*clamp(readability_score, 0, 100)
\*   + 0.3*(language_confidence*100)
WeightedBlend(m) ==
    LET half == Rat(m.total_words, 2)
        word_score == IF RLt(RInt(100), half) THEN RInt(100) ELSE half
        clamped == IF RLt(m.readability_score, RZero) THEN RZero
                   ELSE IF RLt(RInt(100), m.readability_score) THEN RInt(100)
                   ELSE m.readability_score
    IN  Rat(4 * word_score.num * clamped.den * m.language_confidence.den
              + 3 * clamped.num * word_score.den * m.language_confidence.den
              + 300 * m.language_confidence.num * word_score.den * clamped.den,
            10 * word_score.den * clamped.den * m.language_confidence.den)

InZeroToHundred(x) == RLe(RZero, x) /\ RLe(x, RInt(100))

\* C13, as claimed: for every metrics value get_quality_score returns
\* 0.4*min(100, total_words/2) + 0.3*clamp(readability_score, 0, 100)
\* + 0.3*(language_confidence*100), a value in [0, 100], also when
\* total_words = 0 and readability_score > 0.
C13_ScoreFormula ==
    FnDone("get_quality_score") =>
        fn.out = WeightedBlend(fn.arg) /\ InZeroToHundred(fn.out)

\* C13, amended: get_quality_score returns 0 for metrics with total_words = 0
\* and the weighted blend 0.4*min(100, total_words/2)
\* + 0.3*clamp(readability_score, 0, 100) + 0.3*(language_confidence*100)
\* otherwise; the result lies in [0, 100].
C13_Score ==
    FnDone("get_quality_score") =>
        /\ fn.out = IF fn.arg.total_words = 0 THEN RZero
                    ELSE WeightedBlend(fn.arg)
        /\ InZeroToHundred(fn.out)

\* The score of metrics with no word and a positive readability score has
\* been computed, and so has a score that is not 0.
C13_Witness ==
    /\ FnDone("get_quality_score")
    /\ fn.arg.total_words = 0 /\ RLt(RZero, fn.arg.readability_score)
    /\ fn.out = RZero /\ WeightedBlend(fn.arg) # RZero

\* C14: the metrics of a text have no negative field; language_confidence
\* and avg_word_length are 0 when total_words is 0; the metrics of the empty
\* text have total_chars, total_words, avg_word_length and
\* language_confidence 0 and has_meaningful_content false.
C14_Metrics ==
    FnDone("_calculate_quality_metrics") =>
        /\ fn.out.total_chars >= 0 /\ fn.out.total_words >= 0
        /\ RLe(RZero, fn.out.avg_word_length)
        /\ RLe(RZero, fn.out.readability_score)
        /\ RLe(RZero, fn.out.language_confidence)
        /\ fn.out.total_words = 0 =>
               fn.out.language_confidence = RZero /\ fn.out.avg_word_length = RZero
        /\ fn.arg = TEmpty =>
               /\ fn.out.total_chars = 0 /\ fn.out.total_words = 0
               /\ fn.out.avg_word_length = RZero
               /\ fn.out.language_confidence = RZero
               /\ ~fn.out.has_meaningful_content

\* The metrics of a text of more than 100 words per sentence have been
\* computed: its readability score is floored at 0.
C14_Witness ==
    /\ FnDone("_calculate_quality_metrics")
    /\ fn.out.total_words > 100 * SentenceCount(fn.arg)
    /\ fn.out.readability_score = RZero

\* C15: with readability_score and language_confidence held fixed,
\* get_quality_score does not decrease when total_words grows, and does not
\* grow any more from 200 words on.
C15_Monotone ==
    FnDone("get_quality_score twice") =>
        /\ RLe(fn.out[1], fn.out[2])
        /\ fn.arg.lo.total_words >= 200 => fn.out[1] = fn.out[2]

\* Two scores have been computed for 200 words and for more than 200, and
\* two for fewer than 200 words where the score grew.
C15_Witness ==
    /\ FnDone("get_quality_score twice")
    /\ fn.arg.lo.total_words = 200 /\ fn.arg.hi.total_words > 200
    /\ fn.out[1] = fn.out[2] /\ RLt(RZero, fn.out[1])

\* total_words >= min_words AND readability_score >= min_readability AND
\* confidence_score >= min_confidence AND has_meaningful_content
ClaimedThresholds(a) ==
    /\ a.record.quality_metrics.total_words >= a.thresholds.min_words
    /\ RLe(a.thresholds.min_readability, a.record.quality_metrics.readability_score)
    /\ RLe(a.thresholds.min_confidence, a.record.confidence_score)
    /\ a.record.quality_metrics.has_meaningful_content

-----------------------------------------------------------------------------
(* Properties of the cleaning rules and of the date parser.                *)

\* C17: for every raw text, the PDF path's _clean_extracted_text and the
\* HTML path's _clean_text return the same cleaned text.
C17_SameCleaning ==
    FnDone("_clean_text and _clean_extracted_text") => fn.out.html = fn.out.pdf

Digits == {"0", "1", "2", "3", "4", "5", "6", "7", "8", "9"}

\* a str of the form YYYY-MM-DD HH:MM:SS
IsTimestamp(s) ==
    /\ s # None
    /\ Len(s) = 19
    /\ \A i \in 1..19 :
          IF i \in {5, 8} THEN s[i] = "-"
          ELSE IF i = 11 THEN s[i] = " "
          ELSE IF i \in {14, 17} THEN s[i] = ":"
          ELSE s[i] \in Digits

\* a str D:YYYYMMDDHHMMSS, with or without a time zone after it
IsWellFormedDate(d) ==
    /\ d.type = "str" /\ Len(d.chars) >= 16
    /\ Slice(d.chars, 0, 2) = <<"D", ":">>
    /\ \A i \in 3..16 : d.chars[i] \in Digits

\* C18: _parse_pdf_date returns None or a str of the form
\* YYYY-MM-DD HH:MM:SS: a well-formed D:YYYYMMDDHHMMSS value is decoded into
\* that form, and a missing, truncated or malformed value yields None.
C18_ParseDate ==
    FnDone("_parse_pdf_date") =>
        /\ fn.out = None \/ IsTimestamp(fn.out)
        /\ IsWellFormedDate(fn.arg) => IsTimestamp(fn.out)
        /\ ~IsWellFormedDate(fn.arg) => fn.out = None


-----------------------------------------------------------------------------
(* HTML Content Extractor: HTMLCleaner of etl/utils/text_cleaning.py, on   *)
(* the tree that BeautifulSoup's html.parser builds.                       *)

\* HTMLCleaner.ELEMENTS_TO_REMOVE
ELEMENTS_TO_REMOVE ==
    {"script", "style", "noscript", "iframe", "embed", "object",
     "nav", "header", "footer", "aside", "sidebar",
     "advertisement", "ads", "banner", "popup",
     "social-share", "share-buttons", "comments",
     "cookie-notice", "gdpr-banner", "newsletter-signup"}

\* HTMLCleaner.NOISE_PATTERNS, searched in a class or id value: of the values
\* the documents below use, \b(ads?|...)\b finds "ads", \b(share|...)\b finds
\* "share", \b(cookie|...)\b finds "cookie-bar" and \b(nav|menu|...)\b finds
\* "nav-links" (a hyphen is a word boundary) but not "navigation"
AttrValues == {"", "content", "navigation", "ads", "share", "cookie-bar", "nav-links"}
MatchesNoisePattern(v) == v \in {"ads", "share", "cookie-bar", "nav-links"}

\* min_text_length of HTMLCleaner.__init__
MinTextLength == 50

\* the elements below node, in document order
RECURSIVE Descendants(_)
Descendants(node) ==
    Concat([i \in 1..Len(node.children) |->
              <<node.children[i]>> \o Descendants(node.children[i])])

\* the stripped, non-empty strings below node, in document order
RECURSIVE Strings(_)
Strings(node) ==
    (IF Strip(node.text) = <<>> THEN <<>> ELSE <<Strip(node.text)>>)
    \o Concat([i \in 1..Len(node.children) |-> Strings(node.children[i])])

\* node.get_text(separator=sep, strip=True)
get_text(node, sep) ==
    LET ss == Strings(node)
    IN  Norm(Concat([i \in 1..Len(ss) |-> IF i = 1 THEN ss[i] ELSE sep \o ss[i]]))

\* _remove_unwanted_elements that leaves the elements of the removal set in
remove_by_tag_nothing(node) == node

\* for tag_name in ELEMENTS_TO_REMOVE: for element in soup.find_all(tag_name):
\*     element.decompose()
RECURSIVE remove_by_tag(_)
remove_by_tag(node) ==
    LET kept == SelectSeq(node.children, LAMBDA c : c.tag \notin ELEMENTS_TO_REMOVE)
    IN  [node EXCEPT !.children = [i \in 1..Len(kept) |-> remove_by_tag(kept[i])]]

\* for pattern in NOISE_PATTERNS: the elements whose class, then those whose
\* id, the pattern finds are decomposed
RECURSIVE remove_by_pattern(_)
remove_by_pattern(node) ==
    LET kept == SelectSeq(node.children,
                          LAMBDA c : ~MatchesNoisePattern(c.class)
                                     /\ ~MatchesNoisePattern(c.id))
    IN  [node EXCEPT !.children = [i \in 1..Len(kept) |-> remove_by_pattern(kept[i])]]

\* soup.find(tag)
Find(soup, tag) ==
    LET hits == SelectSeq(Descendants(soup), LAMBDA n : n.tag = tag)
    IN  IF hits = <<>> THEN NoElement ELSE hits[1]

\* HTMLCleaner._extract_title
extract_title(soup) ==
    IF Find(soup, "title") # NoElement /\ Strip(get_text(Find(soup, "title"), <<>>)) # <<>>
    THEN Strip(get_text(Find(soup, "title"), <<>>))
    ELSE IF Find(soup, "h1") # NoElement /\ Strip(get_text(Find(soup, "h1"), <<>>)) # <<>>
    THEN Strip(get_text(Find(soup, "h1"), <<>>))
    ELSE <<>>

\* content_selectors of _extract_main_content
content_selectors ==
    << [by |-> "tag", value |-> "main"], [by |-> "role", value |-> "main"],
       [by |-> "class", value |-> "content"], [by |-> "class", value |-> "main-content"],
       [by |-> "class", value |-> "post-content"],
       [by |-> "class", value |-> "entry-content"],
       [by |-> "tag", value |-> "article"],
       [by |-> "class", value |-> "article-content"] >>

\* soup.select_one(selector)
select_one(soup, selector) ==
    LET hits == SelectSeq(Descendants(soup),
                          LAMBDA n : CASE selector.by = "tag" -> n.tag = selector.value
                                       [] selector.by = "role" -> n.role = selector.value
                                       [] OTHER -> n.class = selector.value)
    IN  IF hits = <<>> THEN NoElement ELSE hits[1]

\* _extract_main_content accepting a text of min_text_length characters
extract_main_content_from_50(soup) ==
    LET nl == Chars("\n", 1)
        found == {i \in 1..Len(content_selectors) :
                    /\ select_one(soup, content_selectors[i]) # NoElement
                    /\ TextLen(get_text(select_one(soup, content_selectors[i]), nl))
                           >= MinTextLength}
        divs == SelectSeq(Descendants(soup), LAMBDA n : n.tag = "div")
        size == [i \in 1..Len(divs) |-> TextLen(get_text(divs[i], Chars(" ", 1)))]
        best == {i \in 1..Len(divs) :
                    /\ size[i] >= MinTextLength
                    /\ \A j \in 1..Len(divs) :
                          size[j] < size[i] \/ (size[j] = size[i] /\ i <= j)}
    IN  IF found # {}
        THEN get_text(select_one(soup, content_selectors[
                          CHOOSE i \in found : \A j \in found : i <= j]), nl)
        ELSE IF best # {} THEN get_text(divs[CHOOSE i \in best : TRUE], nl)
        ELSE IF Find(soup, "body") # NoElement THEN get_text(Find(soup, "body"), nl)
        ELSE <<>>

\* HTMLCleaner._extract_main_content
extract_main_content(soup) ==
    LET nl == Chars("\n", 1)
        found == {i \in 1..Len(content_selectors) :
                    /\ select_one(soup, content_selectors[i]) # NoElement
                    /\ TextLen(get_text(select_one(soup, content_selectors[i]), nl))
                           > MinTextLength}
        divs == SelectSeq(Descendants(soup), LAMBDA n : n.tag = "div")
        size == [i \in 1..Len(divs) |-> TextLen(get_text(divs[i], Chars(" ", 1)))]
        best == {i \in 1..Len(divs) :
                    /\ size[i] > MinTextLength
                    /\ \A j \in 1..Len(divs) :
                          size[j] < size[i] \/ (size[j] = size[i] /\ i <= j)}
    IN  IF found # {}
        THEN get_text(select_one(soup, content_selectors[
                          CHOOSE i \in found : \A j \in found : i <= j]), nl)
        ELSE IF best # {} THEN get_text(divs[CHOOSE i \in best : TRUE], nl)
        ELSE IF Find(soup, "body") # NoElement THEN get_text(Find(soup, "body"), nl)
        ELSE <<>>

\* one sentence of ten words on one line of 60 characters
TSentence == Norm(Repeat(Chars("a", 5) \o Chars(" ", 1), 9) \o Chars("a", 5) \o Chars(".", 1))
\* text of a noise element: 12 symbols, a line the cleaning rule would keep
TNoise == Chars("#", 12)

Leaf(tag, text) == Elem(tag, "", "", "", text, <<>>)

\* elements the cleaner is to remove: by tag, by class, by id, and nested
NoiseElements ==
    { Leaf("script", TNoise), Leaf("nav", TNoise),
      Elem("div", "ads", "", "", TNoise, <<>>),
      Elem("div", "", "share", "", TNoise, <<>>),
      Elem("section", "nav-links", "", "", <<>>, <<Leaf("p", TNoise)>>),
      Elem("footer", "", "", "", <<>>, <<Elem("div", "cookie-bar", "", "", TNoise, <<>>)>>),
      Elem("div", "ads", "", "", <<>>, <<Leaf("script", TNoise)>>) }

\* the element that holds the page's prose: <main>, role=main, a content
\* class, <article>, a plain <div>, a <div> whose class no pattern finds
Containers ==
    { Elem("main", "", "", "", <<>>, <<>>), Elem("section", "", "", "main", <<>>, <<>>),
      Elem("div", "content", "", "", <<>>, <<>>), Elem("article", "", "", "", <<>>, <<>>),
      Elem("div", "", "", "", <<>>, <<>>), Elem("div", "navigation", "", "", <<>>, <<>>),
      Elem("span", "", "", "", <<>>, <<>>) }

OptionalNoise == {<<>>} \cup {<<n>> : n \in NoiseElements}

\* <html><head><title>..</title></head><body> outer noise, <h1>, the
\* container with a paragraph, inner noise, a paragraph and a last one of
\* 8 letters </body></html>
HtmlPage(container, prose, inner, outer) ==
    Elem("[document]", "", "", "", <<>>,
         << Elem("html", "", "", "", <<>>,
                 << Elem("head", "", "", "", <<>>, <<Leaf("title", TLetters8)>>),
                    Elem("body", "", "", "", <<>>,
                         outer \o << Leaf("h1", TWords2),
                                     [container EXCEPT !.children =
                                         <<Leaf("p", prose)>> \o inner
                                         \o <<Leaf("p", prose),
                                              Leaf("p", TLetters8)>>] >>) >>) >>)

\* a fragment without <html>, <head> and <body>
Fragment == Elem("[document]", "", "", "", <<>>, <<Leaf("p", TSentence)>>)

\* html_content as html.parser reads it: the tree, or a page the parser
\* gives up on
HtmlPages ==
    {[parses |-> TRUE, tree |-> HtmlPage(c, t, i, o)] :
        c \in Containers, t \in {TSentence, TWords2},
        i \in OptionalNoise, o \in {<<>>, <<Leaf("nav", TNoise)>>}}
    \cup {[parses |-> TRUE, tree |-> Fragment], [parses |-> FALSE, tree |-> NoElement]}

\* the steps of the try block after the parse
HcStages == <<"remove_tags", "remove_patterns", "title", "content", "clean",
              "metrics", "metadata">>

\* cleaner.clean_html(html_content, url)
HcCall ==
    /\ hc.pc = "idle" /\ pdf.pc = "idle" /\ pl.pc = "idle" /\ batch.pc = "idle"
    /\ \E page \in HtmlPages, url \in Urls :
        hc' = [HcIdle EXCEPT !.pc = "parse", !.html = page, !.url = url]
    /\ UNCHANGED <<proc, pdf, pl, batch, prev, fn, sd>>

\* soup = BeautifulSoup(html_content, 'html.parser')
HcParse ==
    /\ hc.pc = "parse"
    /\ hc' = IF hc.html.parses
             THEN [hc EXCEPT !.pc = "remove_tags", !.soup = hc.html.tree]
             ELSE [hc EXCEPT !.pc = "except", !.stage = "parse",
                             !.exc = "maximum recursion depth exceeded"]
    /\ UNCHANGED <<proc, pdf, pl, batch, prev, fn, sd>>

\* _remove_unwanted_elements, its loop over ELEMENTS_TO_REMOVE
HcRemoveTags ==
    /\ hc.pc = "remove_tags"
    /\ hc' = [hc EXCEPT !.pc = "remove_patterns", !.soup = remove_by_tag(hc.soup)]
    /\ UNCHANGED <<proc, pdf, pl, batch, prev, fn, sd>>

\* _remove_unwanted_elements, its loop over NOISE_PATTERNS; the last loop
\* extracts the strings that contain '<!--', of which these pages have none
HcRemovePatterns ==
    /\ hc.pc = "remove_patterns"
    /\ hc' = [hc EXCEPT !.pc = "title", !.soup = remove_by_pattern(hc.soup)]
    /\ UNCHANGED <<proc, pdf, pl, batch, prev, fn, sd>>

\* title = self._extract_title(soup)
HcTitle ==
    /\ hc.pc = "title"
    /\ hc' = [hc EXCEPT !.pc = "content", !.title = extract_title(hc.soup)]
    /\ UNCHANGED <<proc, pdf, pl, batch, prev, fn, sd>>

\* main_content = self._extract_main_content(soup)
HcContent ==
    /\ hc.pc = "content"
    /\ hc' = [hc EXCEPT !.pc = "clean", !.main_content = extract_main_content(hc.soup)]
    /\ UNCHANGED <<proc, pdf, pl, batch, prev, fn, sd>>

\* cleaned_text = self._clean_text(main_content)
HcClean ==
    /\ hc.pc = "clean"
    /\ hc' = [hc EXCEPT !.pc = "metrics", !.cleaned_text = clean_text(hc.main_content)]
    /\ UNCHANGED <<proc, pdf, pl, batch, prev, fn, sd>>

\* the quality metrics of clean_html computed on the selected, uncleaned text
HcMetricsStepRaw(h) ==
    [h EXCEPT !.pc = "metadata",
              !.quality_metrics = calculate_quality_metrics(h.main_content)]

\* quality_metrics = self._calculate_quality_metrics(cleaned_text)
HcMetricsStep(h) ==
    [h EXCEPT !.pc = "metadata",
              !.quality_metrics = calculate_quality_metrics(h.cleaned_text)]

HcMetrics ==
    /\ hc.pc = "metrics"
    /\ hc' = HcMetricsStep(hc)
    /\ UNCHANGED <<proc, pdf, pl, batch, prev, fn, sd>>

\* metadata = self._extract_metadata(soup, url); return {...}
HcReturn ==
    /\ hc.pc = "metadata"
    /\ hc' = [hc EXCEPT !.pc = "done",
                        !.result = CleanResult(hc.title, hc.cleaned_text,
                                               hc.quality_metrics,
                                               [kind |-> "html", source_url |-> hc.url],
                                               TRUE, None)]
    /\ UNCHANGED <<proc, pdf, pl, batch, prev, fn, sd>>

\* a step of the try block after the parse raises (the tree library, the
\* selector engine, the interpreter running out of memory)
HcRaise ==
    /\ \E i \in 1..Len(HcStages) : hc.pc = HcStages[i]
    /\ hc' = [hc EXCEPT !.pc = "except", !.stage = hc.pc, !.exc = "MemoryError"]
    /\ UNCHANGED <<proc, pdf, pl, batch, prev, fn, sd>>

\* the dictionary of the except branch that keeps the title found so far
HcExceptResultKeepsTitle(h) ==
    CleanResult(h.title, <<>>, TextQualityMetrics, NoMetadata, FALSE, h.exc)

\* except Exception as e: return {'title': '', 'cleaned_text': '', ...}
HcExceptResult(h) ==
    CleanResult(<<>>, <<>>, TextQualityMetrics, NoMetadata, FALSE, h.exc)

HcExcept ==
    /\ hc.pc = "except"
    /\ hc' = [hc EXCEPT !.pc = "done", !.result = HcExceptResult(hc)]
    /\ UNCHANGED <<proc, pdf, pl, batch, prev, fn, sd>>

\* the caller is done with the dictionary
HcDone ==
    /\ hc.pc = "done"
    /\ hc' = HcIdle
    /\ UNCHANGED <<proc, pdf, pl, batch, prev, fn, sd>>

NextHtml ==
    \/ HcCall
    \/ HcParse
    \/ HcRemoveTags
    \/ HcRemovePatterns
    \/ HcTitle
    \/ HcContent
    \/ HcClean
    \/ HcMetrics
    \/ HcReturn
    \/ HcRaise
    \/ HcExcept
    \/ HcDone

SpecHtml == Init /\ [][NextHtml]_vars

\* both extractors, called one after the other
SpecExtract == Init /\ [][NextPdf \/ NextHtml]_vars

-----------------------------------------------------------------------------
(* Properties of the HTML Content Extractor.                               *)

HcReturned == hc.pc = "done"

\* C11: clean_html never raises: an exception in the parse, the noise
\* removal, the title extraction, the content selection, the cleaning or the
\* metric computation is caught and reported as extraction_success = false
\* with empty title and text, zeroed metrics and the error message; on
\* success extraction_success = true and error is None.
C11_CleanHtmlNeverRaises ==
    /\ hc.pc \in {"idle", "parse", "except", "done"}
          \/ \E i \in 1..Len(HcStages) : hc.pc = HcStages[i]
    /\ HcReturned =>
          IF hc.stage # ""
          THEN /\ ~hc.result.extraction_success
               /\ hc.result.title = <<>> /\ hc.result.cleaned_text = <<>>
               /\ hc.result.quality_metrics = TextQualityMetrics
               /\ hc.result.error = hc.exc /\ hc.result.error # None
          ELSE hc.result.extraction_success /\ hc.result.error = None

\* A call has returned after an exception in the metric computation, by
\* which time it had found a title and a text.
C11_Witness ==
    /\ HcReturned /\ hc.stage = "metrics"
    /\ hc.title # <<>> /\ hc.cleaned_text # <<>>
    /\ ~hc.result.extraction_success

\* an element the claim calls noise: its tag is in the removal set, or its
\* class or id matches a noise pattern
IsNoise(node) ==
    \/ node.tag \in ELEMENTS_TO_REMOVE
    \/ MatchesNoisePattern(node.class) \/ MatchesNoisePattern(node.id)

\* the text below node that is in no noise element, one string per line
RECURSIVE ProseOf(_)
ProseOf(node) ==
    IF IsNoise(node) THEN <<>>
    ELSE LET parts == <<node.text>>
                      \o [i \in 1..Len(node.children) |-> ProseOf(node.children[i])]
             lines == SelectSeq(parts, LAMBDA t : t # <<>>)
         IN  Norm(JoinLines(lines))

\* the text below node that is in a noise element
RECURSIVE NoiseOf(_, _)
NoiseOf(node, inside) ==
    (IF inside \/ IsNoise(node) THEN node.text ELSE <<>>)
    \o Concat([i \in 1..Len(node.children) |->
                 NoiseOf(node.children[i], inside \/ IsNoise(node))])

\* The pages tell noise from prose by their characters: the text in noise
\* elements is symbols, the text outside them has none.
NoiseIsSymbols(page) ==
    /\ CountIf(NoiseOf(page, FALSE), CharClasses \ {"#"}) = 0
    /\ CountIf(ProseOf(page), {"#"}) = 0

\* the first <main> element of the page as it was parsed
MainOf(page) == Find(page, "main")

\* C12: text that is only inside an element whose tag is in the removal set
\* or whose class or id matches a noise pattern never appears in the cleaned
\* text; the prose outside such elements that is selected as main content (a
\* <main> element with more than 50 characters of it) is kept, as the
\* cleaning rule leaves it; the removal by tag is applied before the removal
\* by class and id.
C12_NoiseRemoved ==
    /\ hc.pc \in {"title", "content", "clean", "metrics", "metadata"} =>
          \A i \in 1..Len(Descendants(hc.soup)) : ~IsNoise(Descendants(hc.soup)[i])
    /\ hc.pc = "remove_patterns" =>
          \A i \in 1..Len(Descendants(hc.soup)) :
              Descendants(hc.soup)[i].tag \notin ELEMENTS_TO_REMOVE
    /\ (HcReturned /\ hc.result.extraction_success) =>
          /\ NoiseIsSymbols(hc.html.tree)
          /\ CountIf(hc.result.cleaned_text, {"#"}) = 0
          /\ (MainOf(hc.html.tree) # NoElement
                /\ TextLen(ProseOf(MainOf(hc.html.tree))) > MinTextLength) =>
                 hc.result.cleaned_text = clean_text(ProseOf(MainOf(hc.html.tree)))

\* A page with noise inside its <main> element, removed by class only, and
\* noise outside it has been cleaned, and prose is left.
C12_Witness ==
    /\ HcReturned /\ hc.result.extraction_success
    /\ MainOf(hc.html.tree) # NoElement
    /\ \E i \in 1..Len(MainOf(hc.html.tree).children) :
          /\ MatchesNoisePattern(MainOf(hc.html.tree).children[i].class)
          /\ MainOf(hc.html.tree).children[i].tag \notin ELEMENTS_TO_REMOVE
    /\ Find(hc.html.tree, "nav") # NoElement
    /\ TextLen(NoiseOf(hc.html.tree, FALSE)) > 12
    /\ TextLen(hc.result.cleaned_text) > MinTextLength

\* C16: the quality metrics of every PDFExtractionResult and of every HTML
\* clean result are the Quality Scorer's metrics of the text emitted with
\* them: the text is cleaned first, the metrics are computed on the cleaned
\* text.
C16_MetricsOfEmittedText ==
    /\ PdfReturned =>
          pdf.result.quality_metrics = calculate_quality_metrics(pdf.result.text)
    /\ (PdfReturned /\ ~pdf.raised) =>
          pdf.result.text = clean_extracted_text(pdf.result.text)
    /\ HcReturned =>
          hc.result.quality_metrics = calculate_quality_metrics(hc.result.cleaned_text)
    /\ (HcReturned /\ hc.result.extraction_success) =>
          hc.result.cleaned_text = clean_text(hc.main_content)

\* An extract_from_pdf call has returned a text that cleaning made shorter
\* than the text selected, with the metrics of a text that has words.
C16_Witness ==
    /\ PdfReturned /\ ~pdf.raised
    /\ TextLen(pdf.result.text) > 0
    /\ pdf.result.quality_metrics.total_words > 0
    /\ \/ pdf.extraction_method = "direct"
          /\ TextLen(pdf.result.text) < TextLen(pdf.direct_text)
       \/ pdf.extraction_method = "ocr"
          /\ TextLen(pdf.result.text) < TextLen(pdf.ocr_text)


(***************************************************************************)
(* SchoolDataExtractor: the result cache and _extract_single_document      *)
(* etl/pipelines/llm/extract_school_data.py                                *)
(***************************************************************************)

\* the cache lifetime: total_seconds() < 86400
CacheSeconds == 86400

\* the clock moves in steps of twelve hours, MaxTicks times at most
TickSeconds == CacheSeconds \div 2

MaxTicks == 3

\* no statistics counter is driven beyond MaxCount
MaxCount == 2

\* _get_cached_result(cache_key) on extractor s: the value returned and the
\* statistics afterwards.  Without a cache directory: None, nothing counted.
\* A file that exists is opened and loaded; cached['cached_at'] is parsed;
\* if utcnow() - cached_time is under CacheSeconds a hit is counted and
\* cached['result'] returned.  Any exception on the way (open, json.load,
\* KeyError, fromisoformat, naive minus aware) is swallowed, and so is a
\* KeyError on 'result' after the hit was counted; then, as for a missing or
\* an expired file, a miss is counted and None returned.
get_cached_result(s, cache_key) ==
    IF ~s.cache_dir
    THEN [out |-> JsonNone, stats |-> s.stats]
    ELSE LET cached == s.files[cache_key]
             hit == [s.stats EXCEPT !.cache_hits = @ + 1]
         IN  IF /\ cached.kind = "json"
                /\ cached.stamp = "iso"
                /\ s.now - cached.cached_at < CacheSeconds
             THEN IF cached.has_result
                  THEN [out |-> cached.result, stats |-> hit]
                  ELSE [out |-> JsonNone,
                        stats |-> [hit EXCEPT !.cache_misses = @ + 1]]
             ELSE [out |-> JsonNone,
                   stats |-> [s.stats EXCEPT !.cache_misses = @ + 1]]

\* _save_to_cache(cache_key, result): nothing without a cache directory;
\* otherwise the file is rewritten with cached_at = utcnow() when the write
\* goes through (written), and a failed write is only logged
save_to_cache(s, cache_key, result, written) ==
    IF s.cache_dir /\ written
    THEN [s.files EXCEPT ![cache_key] = CacheFile("iso", s.now, TRUE, result)]
    ELSE s.files

\* what extract_flight_school_data answers: JSON of a school (with or
\* without its own extraction_metadata.confidence_score), JSON without a
\* name, JSON the FlightSchool schema rejects, or no JSON at all
LlmResponses ==
    {[content |-> c, provider |-> "claude_bedrock", tokens_used |-> 1200] :
        c \in {"school", "scored school", "nameless", "off schema", "not json"}}

\* json.loads(llm_response.content)
json_loads(content) ==
    CASE content = "school"        -> JsonDict({"name"}, 0)
      [] content = "scored school" ->
           JsonDict({"name", "extraction_metadata", "confidence_score"}, 90)
      [] content = "nameless"      -> JsonDict({"address"}, 0)
      [] content = "off schema"    -> JsonDict({"name", "confidence"}, 0)
      [] OTHER                     -> JsonNone

\* _validate_extraction_result: is_valid
validate_extraction_result(raw_result) ==
    /\ "name" \in raw_result.keys
    /\ "confidence" \notin raw_result.keys

\* value.get('extraction_metadata', {}).get('confidence_score', 0.5)
confidence_of(value) ==
    IF "confidence_score" \in value.keys THEN value.confidence_score ELSE 50

\* what another process, an earlier version or a user may have left in the
\* cache directory under a key
ForeignFiles ==
    {NoFile, UnreadableFile,
     CacheFile("absent", 0, TRUE, JsonDict({"name", "extraction_metadata"}, 0)),
     CacheFile("garbled", 0, TRUE, JsonDict({"name", "extraction_metadata"}, 0)),
     CacheFile("iso", 0, FALSE, JsonNone),
     CacheFile("iso", 0, TRUE, JsonDict({"name", "extraction_metadata"}, 0)),
     CacheFile("iso", 0, TRUE, EmptyDict),
     CacheFile("iso", 0, TRUE, JsonList)}

\* SchoolDataExtractor(prompt_template_path, cache_dir): with or without a
\* cache directory, which may already hold a file for a.json's key
InitCache ==
    /\ proc \in Processes
    /\ pdf = PdfIdle
    /\ pl = PlIdle
    /\ batch = BatchIdle
    /\ prev = NoPrev
    /\ hc = HcIdle
    /\ fn = FnIdle
    /\ \E cache_dir \in BOOLEAN, f \in ForeignFiles :
          /\ cache_dir \/ f = NoFile
          /\ sd = [SdIdle EXCEPT
                     !.cache_dir = cache_dir,
                     !.files = [k \in CacheKeys |->
                                  IF k = get_cache_key("doc_a", "0f3a9c1e")
                                  THEN f ELSE NoFile]]

\* _extract_single_document(file_path) is entered: start_time
SdCall ==
    /\ sd.pc = "idle" /\ sd.eb.pc = "idle"
    /\ sd.stats.cache_hits < MaxCount
    /\ sd.stats.cache_misses < MaxCount
    /\ sd.stats.failed_extractions < MaxCount
    /\ \E file_path \in Documents :
          sd' = [sd EXCEPT !.pc = "load", !.file_path = file_path,
                           !.text_data = NoTextData, !.cache_key = <<>>,
                           !.lookup = [file |-> NoFile, now |-> 0],
                           !.cached_result = JsonNone, !.llm_called = FALSE,
                           !.llm_response = NoLlmResponse,
                           !.raw_result = JsonNone, !.exc = None,
                           !.result = NoExtraction]
    /\ UNCHANGED <<proc, pdf, pl, batch, prev, hc, fn>>

\* text_data = self._load_extracted_text(file_path); document_id, source_url,
\* content_hash, cache_key
SdLoad ==
    /\ sd.pc = "load"
    /\ LET text_data == TextData(sd.file_path)
       IN  sd' = IF text_data.loads
                 THEN [sd EXCEPT !.pc = "cache", !.text_data = text_data,
                                 !.cache_key = get_cache_key(text_data.document_id,
                                                             text_data.content_hash)]
                 ELSE [sd EXCEPT !.pc = "except",
                                 !.exc = "ExtractionError: Failed to load"]
    /\ UNCHANGED <<proc, pdf, pl, batch, prev, hc, fn>>

\* the result _extract_single_document returns from the cache
CachedExtraction(s, cached_result) ==
    [document_id |-> s.text_data.document_id, source_url |-> s.text_data.url,
     extracted_data |-> cached_result,
     confidence_score |-> confidence_of(cached_result),
     tokens_used |-> 0, provider |-> "cached", success |-> TRUE,
     error_message |-> None]

\* cached_result = self._get_cached_result(cache_key); if cached_result:
\* return the cached extraction (a truthy value without .get raises)
SdCache ==
    /\ sd.pc = "cache"
    /\ LET got == get_cached_result(sd, sd.cache_key)
           looked == [sd EXCEPT
                        !.stats = got.stats, !.cached_result = got.out,
                        !.lookup = [file |-> IF sd.cache_dir
                                             THEN sd.files[sd.cache_key] ELSE NoFile,
                                    now |-> sd.now]]
       IN  sd' = IF ~Truthy(got.out)
                 THEN [looked EXCEPT !.pc = "llm"]
                 ELSE IF got.out.type = "dict"
                 THEN [looked EXCEPT !.pc = "done",
                                     !.result = CachedExtraction(sd, got.out)]
                 ELSE [looked EXCEPT !.pc = "except",
                                     !.exc = "AttributeError: no attribute 'get'"]
    /\ UNCHANGED <<proc, pdf, pl, batch, prev, hc, fn>>

\* prompt; llm_response = await extract_flight_school_data(prompt)
SdLlm ==
    /\ sd.pc = "llm"
    /\ \/ \E llm_response \in LlmResponses :
             sd' = [sd EXCEPT !.pc = "parse", !.llm_called = TRUE,
                              !.llm_response = llm_response]
       \/ sd' = [sd EXCEPT !.pc = "except", !.llm_called = TRUE,
                           !.exc = "LLMError"]
    /\ UNCHANGED <<proc, pdf, pl, batch, prev, hc, fn>>

\* raw_result = json.loads(llm_response.content), JSONDecodeError becoming
\* ExtractionError
SdParse ==
    /\ sd.pc = "parse"
    /\ LET raw_result == json_loads(sd.llm_response.content)
       IN  sd' = IF raw_result.type = "dict"
                 THEN [sd EXCEPT !.pc = "validate", !.raw_result = raw_result]
                 ELSE [sd EXCEPT !.pc = "except",
                                 !.exc = "ExtractionError: Invalid JSON response"]
    /\ UNCHANGED <<proc, pdf, pl, batch, prev, hc, fn>>

\* _validate_extraction_result; raw_result['extraction_metadata'] updated
SdValidate ==
    /\ sd.pc = "validate"
    /\ sd' = IF validate_extraction_result(sd.raw_result)
             THEN [sd EXCEPT !.pc = "save",
                             !.raw_result.keys = @ \cup {"extraction_metadata"}]
             ELSE [sd EXCEPT !.pc = "except",
                             !.exc = "ExtractionError: Validation failed"]
    /\ UNCHANGED <<proc, pdf, pl, batch, prev, hc, fn>>

\* self._save_to_cache(cache_key, raw_result); the extraction is returned
SdSave ==
    /\ sd.pc = "save"
    /\ \E written \in BOOLEAN :
          sd' = [sd EXCEPT
                   !.pc = "done",
                   !.files = save_to_cache(sd, sd.cache_key, sd.raw_result, written),
                   !.result =
                       [document_id |-> sd.text_data.document_id,
                        source_url |-> sd.text_data.url,
                        extracted_data |-> sd.raw_result,
                        confidence_score |-> confidence_of(sd.raw_result),
                        tokens_used |-> sd.llm_response.tokens_used,
                        provider |-> sd.llm_response.provider,
                        success |-> TRUE, error_message |-> None]]
    /\ UNCHANGED <<proc, pdf, pl, batch, prev, hc, fn>>

\* except Exception as e: failed_extractions += 1, the error extraction
SdExcept ==
    /\ sd.pc = "except"
    /\ sd' = [sd EXCEPT
                !.pc = "done",
                !.stats.failed_extractions = @ + 1,
                !.result =
                    [document_id |-> sd.file_path, source_url |-> "unknown",
                     extracted_data |-> JsonNone, confidence_score |-> 0,
                     tokens_used |-> 0, provider |-> "error",
                     success |-> FALSE, error_message |-> sd.exc]]
    /\ UNCHANGED <<proc, pdf, pl, batch, prev, hc, fn>>

\* the ExtractionResult reaches the caller and the call's locals are gone
SdReturn ==
    /\ sd.pc = "done"
    /\ sd' = [sd EXCEPT !.pc = "idle", !.file_path = "",
                        !.text_data = NoTextData, !.cache_key = <<>>,
                        !.lookup = [file |-> NoFile, now |-> 0],
                        !.cached_result = JsonNone, !.llm_called = FALSE,
                        !.llm_response = NoLlmResponse,
                        !.raw_result = JsonNone, !.exc = None]
    /\ UNCHANGED <<proc, pdf, pl, batch, prev, hc, fn>>

\* time passes (datetime.utcnow)
SdTick ==
    /\ sd.ticks < MaxTicks
    /\ sd' = [sd EXCEPT !.ticks = @ + 1, !.now = @ + TickSeconds]
    /\ UNCHANGED <<proc, pdf, pl, batch, prev, hc, fn>>

NextCache ==
    \/ SdCall
    \/ SdLoad
    \/ SdCache
    \/ SdLlm
    \/ SdParse
    \/ SdValidate
    \/ SdSave
    \/ SdExcept
    \/ SdReturn
    \/ SdTick

SpecCache == InitCache /\ [][NextCache]_vars

(***************************************************************************)
(* Properties of the result cache                                          *)
(***************************************************************************)

\* the call has looked into the cache
SdLooked == sd.pc \in {"llm", "parse", "validate", "save", "done", "except"} /\ sd.cache_key # <<>>

\* at the lookup a cache file for the key existed, was readable and had a
\* cached_at less than 24 hours before now
FreshCacheFile ==
    /\ sd.cache_dir
    /\ sd.lookup.file.kind = "json"
    /\ sd.lookup.file.stamp = "iso"
    /\ sd.lookup.file.has_result
    /\ sd.lookup.now - sd.lookup.file.cached_at < CacheSeconds

\* C20: _get_cached_result returns the stored result if and only if a cache
\* file for the key exists, is readable and has a cached_at less than 24
\* hours before now, and None otherwise (missing, corrupted or expired file),
\* without raising; and on such a cache hit _extract_single_document returns
\* provider "cached" and tokens_used = 0 without having called the LLM.
C20_CacheHit ==
    SdLooked =>
        /\ sd.cached_result = IF FreshCacheFile THEN sd.lookup.file.result ELSE JsonNone
        /\ sd.pc = "done" /\ FreshCacheFile =>
              /\ sd.result.provider = "cached"
              /\ sd.result.tokens_used = 0
              /\ sd.result.success
              /\ ~sd.llm_called


-----------------------------------------------------------------------------
(* Properties of the hybrid merge, the metadata phase and the errors of    *)
(* extract_from_pdf.                                                       *)

\* has_meaningful_content of a text
Meaningful(text) == calculate_quality_metrics(text).has_meaningful_content

\* the text the merge rule names for a direct and an OCR text
MergeRule(direct_text, ocr_text) ==
    IF Meaningful(direct_text) /\ ~Meaningful(ocr_text) THEN direct_text
    ELSE IF Meaningful(ocr_text) /\ ~Meaningful(direct_text) THEN ocr_text
    ELSE IF TextLen(ocr_text) > TextLen(direct_text) THEN ocr_text
    ELSE direct_text

C22_MetadataFailure ==
    PdfReturned /\ pdf.metadata_failed =>
        /\ pdf.result.errors # <<>>
        /\ pdf.result.metadata = PDFMetadata
        /\ ~pdf.raised => pdf.result.extraction_method \in {"direct", "ocr", "hybrid"}

\* C27: in every result returned by extract_from_pdf, errors is non-empty if
\* and only if extraction_method is "failed"; a call in which the metadata
\* extraction, the direct extraction or OCR failed internally without an
\* exception escaping returns "direct", "ocr" or "hybrid" with empty errors.
C27_ErrorsIffFailed ==
    PdfReturned =>
        /\ pdf.result.errors # <<>> <=> pdf.result.extraction_method = "failed"
        /\ ~pdf.raised =>
              /\ pdf.result.extraction_method \in {"direct", "ocr", "hybrid"}
              /\ pdf.result.errors = <<>>

\* A call whose metadata extraction, direct extraction and OCR all failed
\* internally returns without an exception having reached the except branch.
C27_Witness ==
    /\ PdfReturned /\ ~pdf.raised
    /\ pdf.metadata_failed /\ pdf.direct_failed /\ pdf.ocr_ran /\ pdf.ocr_failed
    /\ pdf.result.errors = <<>>

\* C30: whenever extract_from_pdf returns extraction_method "hybrid" its
\* confidence_score equals direct_confidence, hybrid being reachable only
\* when ocr_confidence <= direct_confidence; whenever it returns "ocr" its
\* confidence_score is strictly greater than direct_confidence.
C30_HybridConfidence ==
    PdfReturned =>
        /\ pdf.result.extraction_method = "hybrid" =>
              /\ RLe(pdf.ocr_confidence, pdf.direct_confidence)
              /\ pdf.result.confidence_score = pdf.direct_confidence
        /\ pdf.result.extraction_method = "ocr" =>
              RLt(pdf.direct_confidence, pdf.result.confidence_score)

\* A hybrid result whose two confidences are equal and not zero.
C30_Witness ==
    /\ PdfReturned
    /\ pdf.result.extraction_method = "hybrid"
    /\ pdf.ocr_confidence = pdf.direct_confidence
    /\ RLt(RZero, pdf.direct_confidence)

-----------------------------------------------------------------------------
(* Properties of _detect_document_type, _clean_text and the metrics.       *)

\* the filename ends with the suffix, whatever the case of its letters
HasExtension(filename, suffix) ==
    /\ Len(filename) >= Len(suffix)
    /\ \A i \in 1..Len(suffix) :
          LowerChar(filename[Len(filename) - Len(suffix) + i]) = suffix[i]

\* the first rule that matches, in the order of the claim
ClaimedDocumentType(content, filename) ==
    CASE HasExtension(filename, LitDotPdf) -> "pdf"
      [] ~HasExtension(filename, LitDotPdf)
         /\ (HasExtension(filename, LitDotHtml) \/ HasExtension(filename, LitDotHtm)) -> "html"
      [] OTHER ->
           IF /\ content.kind = "bytes" /\ Len(content.data) >= 5
              /\ SubSeq(content.data, 1, 5) = LitPdfHeader
           THEN "pdf" ELSE "html"

\* C23: without a document_type supplied, _detect_document_type returns the
\* result of the first rule that matches: a filename ending in .pdf gives
\* pdf and one ending in .html or .htm gives html, case-insensitively and
\* whatever the content; otherwise bytes starting with %PDF- give pdf;
\* otherwise an <html or doctype substring gives html; otherwise html.  The
\* result is always html or pdf.
C23_DetectionOrder ==
    FnDone("_detect_document_type") =>
        /\ fn.out = ClaimedDocumentType(fn.arg.content, fn.arg.filename)
        /\ fn.out \in {"html", "pdf"}

\* An upper-case .HTM filename decides for html although the content has the
\* PDF header.
C23_Witness ==
    /\ FnDone("_detect_document_type")
    /\ fn.arg.filename = FnHtm /\ fn.arg.content = CScan
    /\ fn.out = "html"

\* the lines of a text once its whitespace is collapsed, each one trimmed
TrimmedLines(text) ==
    IF text = <<>> THEN <<>>
    ELSE LET lines == SplitLines(Norm(CollapseSpaces(Norm(CollapseBlankLines(Norm(text))))))
         IN  [i \in 1..Len(lines) |-> Strip(lines[i])]

\* a trimmed line the claim keeps
ClaimedKeep(line) ==
    /\ TextLen(line) >= 10
    /\ ~(TextLen(line) > 20 /\ 10 * CountIf(line, {"a"}) < 3 * TextLen(line))

\* C25: _clean_text keeps a line, after trimming, if and only if it has at
\* least 10 characters and is not both longer than 20 characters and below
\* 0.3 in alphabetic-character ratio; the kept lines appear in their original
\* order, and the joined result has no leading or trailing whitespace.
C25_KeptLines ==
    FnDone("_clean_text") =>
        /\ (IF fn.out = <<>> THEN <<>> ELSE SplitLines(fn.out))
              = SelectSeq(TrimmedLines(fn.arg), ClaimedKeep)
        /\ fn.out # <<>> =>
              ~IsSpace(fn.out[1].c) /\ ~IsSpace(fn.out[Len(fn.out)].c)

\* A line of exactly 10 letters and a line of 20 symbols are both kept, in
\* their order.
C25_Witness ==
    /\ FnDone("_clean_text")
    /\ fn.arg = Chars("#", 20) \o Chars("\n", 1) \o Chars("a", 10)
    /\ fn.out = fn.arg

\* has_meaningful_content of a metrics value is what the claim says it is
MeaningfulIff(m) ==
    m.has_meaningful_content <=>
        /\ m.total_words > 50
        /\ RLt(RInt(3), m.avg_word_length)
        /\ RLt(RInt(20), m.readability_score)

-----------------------------------------------------------------------------
(* HTMLCleaner._extract_main_content applied to a parsed page.             *)

\* a text of n characters that starts with k letters
Marked(k, n) == Chars("a", k) \o Chars("1", n - k)

\* the elements the selectors look for, in another order than theirs, each
\* with a text of 50 and with one of 51 characters
SelectorBlocks ==
    LET kinds == << Elem("div", "article-content", "", "", <<>>, <<>>),
                    Elem("article", "", "", "", <<>>, <<>>),
                    Elem("section", "entry-content", "", "", <<>>, <<>>),
                    Elem("section", "post-content", "", "", <<>>, <<>>),
                    Elem("section", "main-content", "", "", <<>>, <<>>),
                    Elem("section", "content", "", "", <<>>, <<>>),
                    Elem("section", "", "", "main", <<>>, <<>>),
                    Elem("main", "", "", "", <<>>, <<>>) >>
    IN  {[kinds[k] EXCEPT !.text = Marked(k, n)] : k \in 1..Len(kinds), n \in {50, 51}}

\* plain divs of 50, 51 and 60 characters, one of them in two paragraphs
DivBlocks ==
    { Elem("div", "", "", "", Chars("#", 50), <<>>),
      Elem("div", "", "", "", Chars("#", 51), <<>>),
      Elem("div", "", "", "", Chars("#", 60), <<>>),
      Elem("div", "", "", "", <<>>, <<Leaf("p", Chars("a", 40)), Leaf("p", Chars("a", 19))>>) }

\* the most blocks of a page
MaxBlocks == 2

\* pages: a body of up to MaxBlocks blocks after a heading, and the same
\* blocks as a fragment without a body
MainPages ==
    LET blocks == SelectorBlocks \cup DivBlocks
        rows == UNION {[1..k -> blocks] : k \in 0..MaxBlocks}
    IN  {Elem("[document]", "", "", "", <<>>,
              << Elem("html", "", "", "", <<>>,
                      << Elem("body", "", "", "", <<>>,
                              <<Leaf("h1", TWords2)>> \o r) >>) >>) : r \in rows}
        \cup {Elem("[document]", "", "", "", <<>>, r) : r \in rows}

InitMain ==
    /\ proc = [OCR_AVAILABLE |-> FALSE, import_ok |-> TRUE]
    /\ pdf = PdfIdle
    /\ pl = PlIdle
    /\ batch = BatchIdle
    /\ prev = NoPrev
    /\ hc = HcIdle
    /\ sd = SdIdle
    /\ fn \in {FnCall("_extract_main_content", soup) : soup \in MainPages}

\* HTMLCleaner()._extract_main_content(soup)
ExtractMainContent ==
    /\ fn.pc = "ready" /\ fn.op = "_extract_main_content"
    /\ fn' = FnReturn(fn, extract_main_content(fn.arg))
    /\ UNCHANGED <<proc, pdf, pl, batch, prev, hc, sd>>

SpecMain == InitMain /\ [][ExtractMainContent]_vars

\* node is what the k-th selector of the claim's list looks for
ClaimedMatch(node, k) ==
    CASE k = 1 -> node.tag = "main"
      [] k = 2 -> node.role = "main"
      [] k = 3 -> node.class = "content"
      [] k = 4 -> node.class = "main-content"
      [] k = 5 -> node.class = "post-content"
      [] k = 6 -> node.class = "entry-content"
      [] k = 7 -> node.tag = "article"
      [] OTHER -> node.class = "article-content"

\* the rendered text of a node
Rendered(node) == get_text(node, Chars("\n", 1))

\* what the claim names for a page
ClaimedMainContent(soup) ==
    LET nodes == Descendants(soup)
        \* the candidate of selector k: the first element it finds, 0 if none
        candidate(k) ==
            IF \E i \in 1..Len(nodes) : ClaimedMatch(nodes[i], k)
            THEN CHOOSE i \in 1..Len(nodes) :
                     /\ ClaimedMatch(nodes[i], k)
                     /\ \A j \in 1..(i - 1) : ~ClaimedMatch(nodes[j], k)
            ELSE 0
        qualifies(k) ==
            candidate(k) # 0 /\ TextLen(Rendered(nodes[candidate(k)])) > 50
        divs == {i \in 1..Len(nodes) :
                    nodes[i].tag = "div" /\ TextLen(Rendered(nodes[i])) > 50}
        longest == {i \in divs :
                      \A j \in divs :
                          \/ TextLen(Rendered(nodes[j])) < TextLen(Rendered(nodes[i]))
                          \/ (TextLen(Rendered(nodes[j])) = TextLen(Rendered(nodes[i]))
                              /\ i <= j)}
        bodies == {i \in 1..Len(nodes) : nodes[i].tag = "body"}
    IN  IF \E k \in 1..8 : qualifies(k)
        THEN Rendered(nodes[candidate(CHOOSE k \in 1..8 :
                                 qualifies(k) /\ \A l \in 1..(k - 1) : ~qualifies(l))])
        ELSE IF divs # {} THEN Rendered(nodes[CHOOSE i \in longest : TRUE])
        ELSE IF bodies # {}
        THEN Rendered(nodes[CHOOSE i \in bodies : \A j \in bodies : i <= j])
        ELSE <<>>

\* C24: _extract_main_content returns the text of the first candidate, in
\* the selector order main, role=main, .content, .main-content,
\* .post-content, .entry-content, article, .article-content, whose rendered
\* text is strictly longer than min_text_length (50); if none qualifies, the
\* text of the div with the longest rendered text above the threshold; if
\* there is none, the full body text; and the empty string without a body.
C24_MainContent ==
    FnDone("_extract_main_content") => fn.out = ClaimedMainContent(fn.arg)

\* A page whose <article> of 51 characters precedes its <main> of 51
\* characters yields the text of <main>.
C24_Witness ==
    /\ FnDone("_extract_main_content")
    /\ \E i, j \in 1..Len(Descendants(fn.arg)) :
          /\ i < j
          /\ Descendants(fn.arg)[i].tag = "article"
          /\ TextLen(Rendered(Descendants(fn.arg)[i])) = 51
          /\ Descendants(fn.arg)[j].tag = "main"
          /\ fn.out = Rendered(Descendants(fn.arg)[j])

\* ---------------------------------------------------------------------------
\* Properties of the save step of process_document
\* ---------------------------------------------------------------------------

\* C28: process_document returns a record with empty errors only after that
\* record was written to the output directory in the same call, and when
\* saving raises, nothing of the extracted record is returned: the returned
\* record has empty text and a non-empty errors list.
C28_SavedBeforeReturn ==
    pl.pc = "returned" =>
        /\ pl.result.errors.items = <<>> => (pl.saved /\ pl.written = pl.result)
        /\ pl.failure = "escaped" =>
               /\ ~pl.saved
               /\ pl.result.extracted_text = <<>>
               /\ pl.result.errors.items # <<>>

\* a call whose extraction gave a text and whose save raised
C28_Witness ==
    /\ pl.pc = "returned" /\ pl.failure = "escaped"
    /\ pl.result.extracted_text = <<>>
    /\ pl.doc_type = "html"
    /\ clean_html(pl.content, pl.url).extraction_success
    /\ clean_html(pl.content, pl.url).cleaned_text # <<>>

(***************************************************************************)
(* SchoolDataExtractor.extract_batch: the coroutines of the documents are  *)
(* gathered, their results counted                                         *)
(***************************************************************************)

MaxPaths == 2

MaxProcessed == 2

\* the file_paths of a call: the documents in any order, with repeats
FilePathLists ==
    UNION {[1..n -> Documents] : n \in 0..MaxPaths}

\* the locals of the running coroutine
TaskLocals(s) ==
    [file_path |-> s.file_path, text_data |-> s.text_data, cache_key |-> s.cache_key,
     lookup |-> s.lookup, cached_result |-> s.cached_result]

\* the extractor when no coroutine runs
BetweenTasks(s) ==
    [s EXCEPT !.pc = "idle", !.file_path = "", !.text_data = NoTextData,
              !.cache_key = <<>>, !.lookup = [file |-> NoFile, now |-> 0],
              !.cached_result = JsonNone, !.llm_called = FALSE,
              !.llm_response = NoLlmResponse, !.raw_result = JsonNone,
              !.exc = None, !.result = NoExtraction]

TasksIn(s, state) == {i \in 1..Len(s.eb.tasks) : s.eb.tasks[i].state = state}

Least(S) == CHOOSE i \in S : \A j \in S : i <= j

\* extract_batch(file_paths, batch_id) is entered: batch_start, the tasks
EbCall ==
    /\ sd.pc = "idle" /\ sd.eb.pc = "idle"
    /\ sd.stats.total_processed < MaxProcessed
    /\ \E file_paths \in FilePathLists :
          sd' = [sd EXCEPT !.eb = [pc |-> "gather", file_paths |-> file_paths,
                                  tasks |-> [i \in 1..Len(file_paths) |-> NewTask],
                                  current |-> 0, out |-> NoBatchResult]]
    /\ UNCHANGED <<proc, pdf, pl, batch, prev, hc, fn>>

\* asyncio.gather: the event loop runs the first step of each coroutine, in
\* the order of file_paths
EbStart ==
    /\ sd.pc = "idle" /\ sd.eb.pc = "gather" /\ sd.eb.current = 0
    /\ TasksIn(sd, "new") # {}
    /\ LET i == Least(TasksIn(sd, "new"))
       IN  sd' = [BetweenTasks(sd) EXCEPT
                     !.pc = "load", !.file_path = sd.eb.file_paths[i],
                     !.eb.current = i, !.eb.tasks[i].state = "running"]
    /\ UNCHANGED <<proc, pdf, pl, batch, prev, hc, fn>>

\* await extract_flight_school_data(prompt) suspends the coroutine
EbSuspend ==
    /\ sd.pc = "llm" /\ sd.eb.current # 0
    /\ sd.eb.tasks[sd.eb.current].state = "running"
    /\ sd' = [BetweenTasks(sd) EXCEPT
                 !.eb.current = 0,
                 !.eb.tasks[sd.eb.current].state = "waiting",
                 !.eb.tasks[sd.eb.current].locals = TaskLocals(sd)]
    /\ UNCHANGED <<proc, pdf, pl, batch, prev, hc, fn>>

\* the awaited call of one suspended coroutine completes, after every
\* coroutine has run its first step
EbResume ==
    /\ sd.pc = "idle" /\ sd.eb.pc = "gather" /\ sd.eb.current = 0
    /\ TasksIn(sd, "new") = {}
    /\ \E i \in TasksIn(sd, "waiting") :
          LET locals == sd.eb.tasks[i].locals
          IN  sd' = [sd EXCEPT
                       !.pc = "llm", !.file_path = locals.file_path,
                       !.text_data = locals.text_data,
                       !.cache_key = locals.cache_key, !.lookup = locals.lookup,
                       !.cached_result = locals.cached_result,
                       !.eb.current = i, !.eb.tasks[i].state = "resumed",
                       !.eb.tasks[i].locals = NoLocals]
    /\ UNCHANGED <<proc, pdf, pl, batch, prev, hc, fn>>

\* a coroutine returns its ExtractionResult to the gather
EbTaskDone ==
    /\ sd.pc = "done" /\ sd.eb.current # 0
    /\ sd' = [BetweenTasks(sd) EXCEPT
                 !.eb.current = 0,
                 !.eb.tasks[sd.eb.current].state = "done",
                 !.eb.tasks[sd.eb.current].result = sd.result]
    /\ UNCHANGED <<proc, pdf, pl, batch, prev, hc, fn>>

RECURSIVE CountSuccess(_)
CountSuccess(results) ==
    IF results = <<>> THEN 0
    ELSE (IF results[1].success THEN 1 ELSE 0) + CountSuccess(Tail(results))

\* Lines 293-340. _extract_single_document catches every Exception, so no
\* gathered result is an exception and the loop takes its else branch:
\* successful_extractions or failed_extractions += 1 for each result.
HandleResults(s) ==
    LET results == [i \in 1..Len(s.eb.tasks) |-> s.eb.tasks[i].result]
        success_count == CountSuccess(results)
    IN  [s EXCEPT
           !.stats.successful_extractions = @ + success_count,
           !.stats.failed_extractions = @ + (Len(results) - success_count),
           !.stats.total_processed = @ + Len(s.eb.file_paths),
           !.eb = [pc |-> "idle", file_paths |-> s.eb.file_paths, tasks |-> <<>>,
                   current |-> 0,
                   out |-> [results |-> results, success_count |-> success_count,
                            error_count |-> Len(s.eb.file_paths) - success_count]]]

\* the gather is complete: the results are counted, the BatchResult returned
EbReturn ==
    /\ sd.pc = "idle" /\ sd.eb.pc = "gather"
    /\ TasksIn(sd, "done") = 1..Len(sd.eb.tasks)
    /\ sd' = HandleResults(sd)
    /\ UNCHANGED <<proc, pdf, pl, batch, prev, hc, fn>>

NextExtractBatch ==
    \/ EbCall
    \/ EbStart
    \/ SdLoad
    \/ SdCache
    \/ EbSuspend
    \/ EbResume
    \/ SdLlm
    \/ SdParse
    \/ SdValidate
    \/ SdSave
    \/ SdExcept
    \/ EbTaskDone
    \/ EbReturn

\* the clock stands at the time of construction while the batches run
SpecExtractBatch == InitCache /\ [][NextExtractBatch]_vars

\* an extract_batch call has returned its BatchResult
EbReturned == sd.eb.pc = "idle" /\ sd.eb.file_paths # <<>>

\* each BatchResult has success_count + error_count = len(results) = the
\* number of input files, its results in input order
BatchResultAddsUp ==
    EbReturned =>
        /\ sd.eb.out.success_count + sd.eb.out.error_count = Len(sd.eb.out.results)
        /\ Len(sd.eb.out.results) = Len(sd.eb.file_paths)
        /\ \A i \in 1..Len(sd.eb.file_paths) :
              IF sd.eb.out.results[i].success
              THEN sd.eb.out.results[i].document_id
                       = TextData(sd.eb.file_paths[i]).document_id
              ELSE sd.eb.out.results[i].document_id = sd.eb.file_paths[i]

\* C29: after any sequence of extract_batch calls the statistics satisfy
\* successful_extractions + failed_extractions = total_processed, every
\* failed document being counted as failed exactly once, and each
\* BatchResult adds up to its input files.
C29_StatsAddUp ==
    sd.eb.pc = "idle" =>
        /\ sd.stats.successful_extractions + sd.stats.failed_extractions
               = sd.stats.total_processed
        /\ BatchResultAddsUp

====
